---- MODULE Spec2Model ----
(***************************************************************************)
(* Payroll platform: the payroll-run engine (PayrollService), the webhook  *)
(* reconciliation routes and the worker endpoints that create the records  *)
(* the webhooks reconcile.  The ledger store (Prisma) is modelled as       *)
(* tables; every await of the services is one step, so that requests       *)
(* interleave where the event loop lets them interleave.                   *)
(***************************************************************************)
EXTENDS Integers, Sequences, FiniteSets, TLC

\* ---------------------------------------------------------------- bounds
NumRuns == 2
MaxRows == 2
NumWorkers == 2
NumCalls == 2
MaxDeliveries == 1
MaxRedeliveries == 2
NumOps == 1
NumTransfers == 2
MaxAttempts == 3
MaxRetries == 3

RunIds == 1..NumRuns
\* the run of the specifications that follow a single createPayrollRun call
FirstRun == {1}
Emails == 1..NumWorkers
Calls == 1..NumCalls
ItemIds == RunIds \X (1..MaxRows)
OpIds == 1..NumOps
TransferIds == 1..NumTransfers

\* null / undefined of the source
NULL == <<>>

\* an amount is a decimal string, held as the sequence of its digits: "1"
Amounts == {<<1>>}
Chains == {"ethereum"}

\* String.prototype.toUpperCase on the chain names in use
ToUpperCase(s) ==
  CASE s = "ethereum" -> "ETHEREUM"
    [] s = "ETHEREUM" -> "ETHEREUM"
    [] OTHER -> s

VARIABLES
  workers,      \* table workers, keyed by email
  runs,         \* table payroll_runs
  items,        \* table payroll_items
  audit,        \* table audit_logs, in insertion order
  tx,           \* createPayrollRun calls: the open transaction of each
  ex,           \* executePayrollRun calls
  gateway,      \* dispatch requests the payment gateway has received
  gasTxs,       \* table gas_station_transactions
  pmOps,        \* table paymaster_operations
  transfers,    \* table cross_chain_transfers
  routes,       \* POST /workers/:id/transfer requests in progress
  resp,         \* the last HTTP response of a webhook route
  prismaInScope, \* whether `prisma` resolves inside webhookRoutes.ts
  mon,          \* the monitorTransfer call
  failedLog,    \* payout ids logged 'Payout failed webhook processed'
  opMon,        \* the monitorUserOperation call
  rt,           \* the retry call
  circleCalls   \* createRecipient / createWallet calls the provider received

vars == <<workers, runs, items, audit, tx, ex, gateway, gasTxs, pmOps,
          transfers, routes, resp, prismaInScope, mon, failedLog, opMon, rt,
          circleCalls>>

ledger == <<workers, runs, items, audit, gasTxs, pmOps, transfers>>

\* ------------------------------------------------------- initial records
NoWorker == [exists |-> FALSE, name |-> "", recipientId |-> NULL,
             walletId |-> NULL]
NoRun == [status |-> "NONE", totalAmount |-> NULL, totalWorkers |-> 0,
          completedAt |-> FALSE]
NoItem == [status |-> "NONE", payrollRunId |-> 0, workerId |-> 0,
           amount |-> NULL, chain |-> "",
           payoutId |-> NULL, transactionHash |-> NULL,
           errorMessage |-> NULL, completedAt |-> FALSE]
NoTx == [pc |-> "idle", rows |-> <<>>, idx |-> 1, status |-> "NONE",
         newWorkers |-> [e \in Emails |-> NoWorker], audit |-> <<>>]
NoCall == [pc |-> "idle", run |-> -1, snap |-> <<>>, idx |-> 1,
           results |-> <<>>, payout |-> NULL, error |-> NULL,
           statusCode |-> 0, reply |-> [code |-> 0, status |-> ""]]
NoOp == [status |-> "NONE", transactionHash |-> NULL, completedAt |-> FALSE]
NoTransfer == [status |-> "NONE", messageHash |-> NULL,
               attestation |-> NULL, transactionHash |-> NULL,
               errorMessage |-> NULL, completedAt |-> NULL]
NoResp == [route |-> "", code |-> 0]
Attestations == {<<"att", "1">>}
NoOperation == [status |-> "", gasUsed |-> NULL, gasFeeInUSDC |-> NULL]
NoOpMonitor == [pc |-> "idle", maxAttempts |-> 0, attempts |-> 0,
                queries |-> 0, result |-> NoOperation]
NoRetry == [pc |-> "idle", args |-> [retries |-> 0, delay |-> 0],
            retries |-> 0, delay |-> 0, calls |-> 0, slept |-> <<>>,
            error |-> NULL, result |-> NULL]
NoOutcome == [threw |-> FALSE, value |-> NULL]
NoMonitor == [pc |-> "idle", maxAttempts |-> 0, attempts |-> 0, queries |-> 0,
              errors |-> 0, attestation |-> NULL, last |-> NoOutcome]

InitStore ==
  /\ workers = [e \in Emails |-> NoWorker]
  /\ runs = [r \in RunIds |-> NoRun]
  /\ items = [i \in ItemIds |-> NoItem]
  /\ audit = <<>>
  /\ tx = [r \in RunIds |-> NoTx]
  /\ ex = [p \in Calls |-> NoCall]
  /\ gateway = {}
  /\ gasTxs = [o \in OpIds |-> NoOp]
  /\ pmOps = [o \in OpIds |-> NoOp]
  /\ transfers = [t \in TransferIds |-> NoTransfer]
  /\ routes = [t \in TransferIds |-> "idle"]
  /\ resp = NoResp
  /\ mon = NoMonitor
  /\ failedLog = {}
  /\ opMon = NoOpMonitor
  /\ rt = NoRetry
  /\ circleCalls = {}

\* ------------------------------------------- PayrollService.createPayrollRun
Names == {"ann"}
Rows == [name : Names, email : Emails, amount : Amounts, chain : Chains]
Requests == UNION {[1..n -> Rows] : n \in 0..MaxRows}

\* Integers beyond the machine word are held as two limbs <<hi, lo>>, the
\* value being hi * Base + lo; a Number with an integral value below 2^56
\* is held as that integer.
Base == 100000000
Zero == <<0, 0>>
Pow2_53 == <<90071992, 54740992>>
Pow2_54 == <<180143985, 9481984>>
Pow2_55 == <<360287970, 18963968>>

BigLess(a, b) == a[1] < b[1] \/ (a[1] = b[1] /\ a[2] < b[2])

BigAdd(a, b) ==
  LET lo == a[2] + b[2]
  IN <<a[1] + b[1] + (lo \div Base), lo % Base>>

RECURSIVE Nat10(_)
Nat10(ds) ==
  IF ds = <<>> THEN 0
  ELSE 10 * Nat10(SubSeq(ds, 1, Len(ds) - 1)) + ds[Len(ds)]

\* the integer a digit string denotes
Big(ds) ==
  IF Len(ds) <= 8 THEN <<0, Nat10(ds)>>
  ELSE <<Nat10(SubSeq(ds, 1, Len(ds) - 8)),
         Nat10(SubSeq(ds, Len(ds) - 7, Len(ds)))>>

\* the Number nearest to an integer: 53 significant bits, ties to even
RoundToDouble(v) ==
  LET q == IF BigLess(v, Pow2_53) THEN 1
           ELSE IF BigLess(v, Pow2_54) THEN 2
           ELSE IF BigLess(v, Pow2_55) THEN 4
           ELSE 8
      r == v[2] % q
      down == <<v[1], v[2] - r>>
      up == BigAdd(down, <<0, q>>)
      odd == ((v[2] - r) \div q) % 2 = 1
  IN IF r = 0 THEN v
     ELSE IF 2 * r < q THEN down
     ELSE IF 2 * r > q THEN up
     ELSE IF odd THEN up ELSE down

\* parseFloat of a digit string
parseFloat(ds) == RoundToDouble(Big(ds))

\* the + of two Numbers
FloatAdd(a, b) == RoundToDouble(BigAdd(a, b))

\* Number.prototype.toFixed(6) of an integral Number: its digits and six
\* fractional digits, all zero; held as <<hi, lo, millionths>>
ToFixed6(x) == <<x[1], x[2], 0>>

\* workers.reduce((sum, worker) => sum + parseFloat(worker.amount), 0)
RECURSIVE SumAmounts(_)
SumAmounts(rows) ==
  IF rows = <<>> THEN Zero
  ELSE FloatAdd(SumAmounts(SubSeq(rows, 1, Len(rows) - 1)),
                parseFloat(rows[Len(rows)].amount))

totalAmount(rows) == ToFixed6(SumAmounts(rows))

\* the worker table as the open transaction of run r sees it
TxWorker(r, e) ==
  IF tx[r].newWorkers[e].exists THEN tx[r].newWorkers[e] ELSE workers[e]

\* prisma.$transaction callback entered; tx.payrollRun.create with DRAFT
CreateBegin(r, request) ==
  /\ tx[r].pc = "idle"
  /\ tx' = [tx EXCEPT ![r] = [NoTx EXCEPT !.pc = "rows", !.rows = request,
                                         !.status = "DRAFT"]]
  /\ UNCHANGED <<workers, runs, items, audit, ex, gateway, gasTxs, pmOps,
                 transfers, routes, resp, prismaInScope, mon, failedLog, opMon, rt,
                 circleCalls>>

\* circleService.createRecipient and createWallet as called for row k of run r
ProvisioningCalls(r, k, recipientOk, walletOk) ==
  {[run |-> r, row |-> k, service |-> "recipient", ok |-> recipientOk],
   [run |-> r, row |-> k, service |-> "wallet", ok |-> walletOk]}

\* CreateRow asking for a wallet only when the recipient was created
CreateRow_WalletNeedsRecipient(r, recipientOk, walletOk) ==
  /\ tx[r].pc = "rows"
  /\ tx[r].idx <= Len(tx[r].rows)
  /\ LET row == tx[r].rows[tx[r].idx]
         e == row.email
         found == TxWorker(r, e).exists
         created == [exists |-> TRUE, name |-> row.name,
                     recipientId |-> IF recipientOk THEN <<"rcp", e>> ELSE NULL,
                     walletId |-> IF recipientOk /\ walletOk
                                  THEN <<"wal", e>> ELSE NULL]
         entry == [eventType |-> "PAYROLL_ITEM_CREATED",
                   entityId |-> <<r, tx[r].idx>>,
                   payload |-> [amount |-> row.amount, chain |-> row.chain,
                                workerEmail |-> e]]
         calls == ProvisioningCalls(r, tx[r].idx, recipientOk, walletOk)
     IN  \* the unique index on email makes a second uncommitted insert wait
         /\ found \/ \A q \in RunIds \ {r} : ~tx[q].newWorkers[e].exists
         /\ found => recipientOk /\ walletOk
         /\ tx' = [tx EXCEPT ![r].idx = @ + 1,
                             ![r].newWorkers[e] = IF found THEN @ ELSE created,
                             ![r].audit = Append(@, entry)]
         /\ circleCalls' = IF found THEN circleCalls ELSE circleCalls \cup calls
  /\ UNCHANGED <<workers, runs, items, audit, ex, gateway, gasTxs, pmOps,
                 transfers, routes, resp, prismaInScope, mon, failedLog,
                 opMon, rt>>

\* CreateRow provisioning the worker it found as it does a new one
CreateRow_ProvisionsFound(r, recipientOk, walletOk) ==
  /\ tx[r].pc = "rows"
  /\ tx[r].idx <= Len(tx[r].rows)
  /\ LET row == tx[r].rows[tx[r].idx]
         e == row.email
         found == TxWorker(r, e).exists
         created == [exists |-> TRUE, name |-> row.name,
                     recipientId |-> IF recipientOk THEN <<"rcp", e>> ELSE NULL,
                     walletId |-> IF walletOk THEN <<"wal", e>> ELSE NULL]
         entry == [eventType |-> "PAYROLL_ITEM_CREATED",
                   entityId |-> <<r, tx[r].idx>>,
                   payload |-> [amount |-> row.amount, chain |-> row.chain,
                                workerEmail |-> e]]
         calls == ProvisioningCalls(r, tx[r].idx, recipientOk, walletOk)
     IN  \* the unique index on email makes a second uncommitted insert wait
         /\ found \/ \A q \in RunIds \ {r} : ~tx[q].newWorkers[e].exists
         /\ TRUE
         /\ tx' = [tx EXCEPT ![r].idx = @ + 1,
                             ![r].newWorkers[e] = IF found
                                THEN [created EXCEPT !.name = TxWorker(r, e).name]
                                ELSE created,
                             ![r].audit = Append(@, entry)]
         /\ circleCalls' = circleCalls \cup calls
  /\ UNCHANGED <<workers, runs, items, audit, ex, gateway, gasTxs, pmOps,
                 transfers, routes, resp, prismaInScope, mon, failedLog,
                 opMon, rt>>

\* CreateRow creating a worker for every row, without the lookup by email
CreateRow_AlwaysCreates(r, recipientOk, walletOk) ==
  /\ tx[r].pc = "rows"
  /\ tx[r].idx <= Len(tx[r].rows)
  /\ LET row == tx[r].rows[tx[r].idx]
         e == row.email
         found == FALSE
         created == [exists |-> TRUE, name |-> row.name,
                     recipientId |-> IF recipientOk THEN <<"rcp", e>> ELSE NULL,
                     walletId |-> IF walletOk THEN <<"wal", e>> ELSE NULL]
         entry == [eventType |-> "PAYROLL_ITEM_CREATED",
                   entityId |-> <<r, tx[r].idx>>,
                   payload |-> [amount |-> row.amount, chain |-> row.chain,
                                workerEmail |-> e]]
         calls == ProvisioningCalls(r, tx[r].idx, recipientOk, walletOk)
     IN  \* the unique index on email makes a second uncommitted insert wait
         /\ TRUE
         /\ found => recipientOk /\ walletOk
         /\ tx' = [tx EXCEPT ![r].idx = @ + 1,
                             ![r].newWorkers[e] = IF found THEN @ ELSE created,
                             ![r].audit = Append(@, entry)]
         /\ circleCalls' = IF found THEN circleCalls ELSE circleCalls \cup calls
  /\ UNCHANGED <<workers, runs, items, audit, ex, gateway, gasTxs, pmOps,
                 transfers, routes, resp, prismaInScope, mon, failedLog,
                 opMon, rt>>

\* one iteration of `for (const workerData of request.workers)`: find the
\* worker by email or create and provision it, then the item and its audit
CreateRow(r, recipientOk, walletOk) ==
  /\ tx[r].pc = "rows"
  /\ tx[r].idx <= Len(tx[r].rows)
  /\ LET row == tx[r].rows[tx[r].idx]
         e == row.email
         found == TxWorker(r, e).exists
         created == [exists |-> TRUE, name |-> row.name,
                     recipientId |-> IF recipientOk THEN <<"rcp", e>> ELSE NULL,
                     walletId |-> IF walletOk THEN <<"wal", e>> ELSE NULL]
         entry == [eventType |-> "PAYROLL_ITEM_CREATED",
                   entityId |-> <<r, tx[r].idx>>,
                   payload |-> [amount |-> row.amount, chain |-> row.chain,
                                workerEmail |-> e]]
         calls == ProvisioningCalls(r, tx[r].idx, recipientOk, walletOk)
     IN  \* the unique index on email makes a second uncommitted insert wait
         /\ found \/ \A q \in RunIds \ {r} : ~tx[q].newWorkers[e].exists
         /\ found => recipientOk /\ walletOk
         /\ tx' = [tx EXCEPT ![r].idx = @ + 1,
                             ![r].newWorkers[e] = IF found THEN @ ELSE created,
                             ![r].audit = Append(@, entry)]
         /\ circleCalls' = IF found THEN circleCalls ELSE circleCalls \cup calls
  /\ UNCHANGED <<workers, runs, items, audit, ex, gateway, gasTxs, pmOps,
                 transfers, routes, resp, prismaInScope, mon, failedLog,
                 opMon, rt>>

NewItem(r, k) ==
  LET row == tx[r].rows[k]
  IN [NoItem EXCEPT !.status = "PENDING", !.payrollRunId = r,
                    !.workerId = row.email,
                    !.amount = row.amount, !.chain = ToUpperCase(row.chain)]

\* CreateCommit without the audit record of the run
CreateCommit_NoRunAudit(r) ==
  /\ tx[r].pc = "rows"
  /\ tx[r].idx > Len(tx[r].rows)
  /\ LET n == Len(tx[r].rows)
         entry == [eventType |-> "PAYROLL_RUN_CREATED", entityId |-> <<r>>,
                   payload |-> [totalAmount |-> totalAmount(tx[r].rows),
                                totalWorkers |-> n]]
     IN /\ runs' = [runs EXCEPT ![r] =
                      [NoRun EXCEPT !.status = "PENDING",
                                    !.totalAmount = totalAmount(tx[r].rows),
                                    !.totalWorkers = n]]
        /\ items' = [i \in ItemIds |->
                       IF i[1] = r /\ i[2] <= n THEN NewItem(r, i[2])
                       ELSE items[i]]
        /\ workers' = [e \in Emails |->
                         IF tx[r].newWorkers[e].exists THEN tx[r].newWorkers[e]
                         ELSE workers[e]]
        /\ audit' = audit \o tx[r].audit
        /\ tx' = [tx EXCEPT ![r] = [NoTx EXCEPT !.pc = "done",
                                                !.status = "PENDING"]]
  /\ UNCHANGED <<ex, gateway, gasTxs, pmOps, transfers, routes, resp, prismaInScope, mon, failedLog, opMon, rt,
                 circleCalls>>

\* status -> PENDING, the run's audit record, and the commit
CreateCommit(r) ==
  /\ tx[r].pc = "rows"
  /\ tx[r].idx > Len(tx[r].rows)
  /\ LET n == Len(tx[r].rows)
         entry == [eventType |-> "PAYROLL_RUN_CREATED", entityId |-> <<r>>,
                   payload |-> [totalAmount |-> totalAmount(tx[r].rows),
                                totalWorkers |-> n]]
     IN /\ runs' = [runs EXCEPT ![r] =
                      [NoRun EXCEPT !.status = "PENDING",
                                    !.totalAmount = totalAmount(tx[r].rows),
                                    !.totalWorkers = n]]
        /\ items' = [i \in ItemIds |->
                       IF i[1] = r /\ i[2] <= n THEN NewItem(r, i[2])
                       ELSE items[i]]
        /\ workers' = [e \in Emails |->
                         IF tx[r].newWorkers[e].exists THEN tx[r].newWorkers[e]
                         ELSE workers[e]]
        /\ audit' = audit \o Append(tx[r].audit, entry)
        /\ tx' = [tx EXCEPT ![r] = [NoTx EXCEPT !.pc = "done",
                                                !.status = "PENDING"]]
  /\ UNCHANGED <<ex, gateway, gasTxs, pmOps, transfers, routes, resp, prismaInScope, mon, failedLog, opMon, rt,
                 circleCalls>>

\* CreateAbort leaving the workers written so far in the store
CreateAbort_KeepsWorkers(r) ==
  /\ tx[r].pc = "rows"
  /\ workers' = [e \in Emails |->
                   IF tx[r].newWorkers[e].exists THEN tx[r].newWorkers[e]
                   ELSE workers[e]]
  /\ tx' = [tx EXCEPT ![r] = [NoTx EXCEPT !.pc = "failed",
                                         !.idx = tx[r].idx]]
  /\ UNCHANGED <<runs, items, audit, ex, gateway, gasTxs, pmOps,
                 transfers, routes, resp, prismaInScope, mon, failedLog, opMon, rt,
                 circleCalls>>

\* a store write inside the transaction throws: rollback, PayrollError 500
CreateAbort(r) ==
  /\ tx[r].pc = "rows"
  /\ tx' = [tx EXCEPT ![r] = [NoTx EXCEPT !.pc = "failed",
                                         !.idx = tx[r].idx]]
  /\ UNCHANGED <<workers, runs, items, audit, ex, gateway, gasTxs, pmOps,
                 transfers, routes, resp, prismaInScope, mon, failedLog, opMon, rt,
                 circleCalls>>

\* ------------------------------------------ PayrollService.executePayrollRun
\* findUnique({ include: { payrollItems: { include: { worker } } } })
Snapshot(r) ==
  [k \in 1..runs[r].totalWorkers |->
     [id |-> <<r, k>>,
      walletId |-> workers[items[<<r, k>>].workerId].walletId,
      recipientId |-> workers[items[<<r, k>>].workerId].recipientId]]

\* a payrollRunId that names no run
NoSuchRun == 0

RunExists(r) == r \in RunIds /\ runs[r].status # "NONE"

\* POST /runs/:id/execute starts executePayrollRun without awaiting it and
\* answers at once, before the call has read the run
ExecuteReply == [code |-> 200, status |-> "processing"]

\* ExecFind without the check of the run's status
ExecFind_NoStatusCheck(p, r) ==
  /\ ex[p].pc = "idle"
  /\ \A q \in Calls : q < p => ex[q].pc # "idle"
  /\ r = NoSuchRun \/ RunExists(r)
  /\ ex' = [ex EXCEPT ![p] =
       IF ~RunExists(r)
       THEN [@ EXCEPT !.pc = "catch", !.run = r, !.statusCode = 404,
                      !.reply = ExecuteReply]
       ELSE [@ EXCEPT !.pc = "markProcessing", !.run = r,
                      !.snap = Snapshot(r), !.reply = ExecuteReply]]
  /\ UNCHANGED <<workers, runs, items, audit, tx, gateway, gasTxs, pmOps,
                 transfers, routes, resp, prismaInScope, mon, failedLog, opMon, rt,
                 circleCalls>>

\* POST /runs/:id/execute and the first step of the executePayrollRun call
\* it starts: the read of the run and the two checks that follow it; the id
\* of a run is known to callers once createPayrollRun has returned it
ExecFind(p, r) ==
  /\ ex[p].pc = "idle"
  /\ \A q \in Calls : q < p => ex[q].pc # "idle"
  /\ r = NoSuchRun \/ RunExists(r)
  /\ ex' = [ex EXCEPT ![p] =
       IF ~RunExists(r)
       THEN [@ EXCEPT !.pc = "catch", !.run = r, !.statusCode = 404,
                      !.reply = ExecuteReply]
       ELSE IF runs[r].status # "PENDING"
       THEN [@ EXCEPT !.pc = "catch", !.run = r, !.statusCode = 400,
                      !.reply = ExecuteReply]
       ELSE [@ EXCEPT !.pc = "markProcessing", !.run = r,
                      !.snap = Snapshot(r), !.reply = ExecuteReply]]
  /\ UNCHANGED <<workers, runs, items, audit, tx, gateway, gasTxs, pmOps,
                 transfers, routes, resp, prismaInScope, mon, failedLog, opMon, rt,
                 circleCalls>>

LoopPc(c) == IF c.idx <= Len(c.snap) THEN "itemProcessing" ELSE "finalize"

\* payrollRun.update({ status: PROCESSING })
ExecMarkProcessing(p) ==
  /\ ex[p].pc = "markProcessing"
  /\ runs' = [runs EXCEPT ![ex[p].run].status = "PROCESSING"]
  /\ ex' = [ex EXCEPT ![p].pc = LoopPc(ex[p])]
  /\ UNCHANGED <<workers, items, audit, tx, gateway, gasTxs, pmOps,
                 transfers, routes, resp, prismaInScope, mon, failedLog, opMon, rt,
                 circleCalls>>

\* ExecItemProcessing updating the items by their worker
ExecItemProcessing_ByWorker(p) ==
  /\ ex[p].pc = "itemProcessing"
  /\ LET w == items[ex[p].snap[ex[p].idx].id].workerId
     IN items' = [i \in ItemIds |->
                    IF items[i].status # "NONE" /\ items[i].workerId = w
                    THEN [items[i] EXCEPT !.status = "PROCESSING"]
                    ELSE items[i]]
  /\ ex' = [ex EXCEPT ![p].pc = "dispatch"]
  /\ UNCHANGED <<workers, runs, audit, tx, gateway, gasTxs, pmOps,
                 transfers, routes, resp, prismaInScope, mon, failedLog, opMon, rt,
                 circleCalls>>

\* payrollItem.update({ status: PROCESSING }) at the top of the loop body
ExecItemProcessing(p) ==
  /\ ex[p].pc = "itemProcessing"
  /\ items' = [items EXCEPT ![ex[p].snap[ex[p].idx].id].status = "PROCESSING"]
  /\ ex' = [ex EXCEPT ![p].pc = "dispatch"]
  /\ UNCHANGED <<workers, runs, audit, tx, gateway, gasTxs, pmOps,
                 transfers, routes, resp, prismaInScope, mon, failedLog, opMon, rt,
                 circleCalls>>

\* PathOf trying the recipient before the wallet
PathOf_RecipientFirst(s) ==
  IF s.recipientId # NULL THEN "payout"
  ELSE IF s.walletId # NULL THEN "gasless"
  ELSE "none"

\* the payment path an item takes, from the worker read with the run
PathOf(s) ==
  IF s.walletId # NULL THEN "gasless"
  ELSE IF s.recipientId # NULL THEN "payout"
  ELSE "none"

\* executeGaslessPayment / executeCirclePayout; accepted tells whether the
\* gateway call returned or threw
ExecDispatch(p, accepted) ==
  /\ ex[p].pc = "dispatch"
  /\ LET s == ex[p].snap[ex[p].idx]
         path == PathOf(s)
     IN IF path = "none"
        THEN /\ ~accepted
             /\ ex' = [ex EXCEPT ![p].pc = "itemFailed",
                                 ![p].error = <<"no wallet or recipient">>]
             /\ UNCHANGED gateway
        ELSE /\ gateway' = gateway \cup
                  {[call |-> p, item |-> s.id, path |-> path,
                    accepted |-> accepted]}
             /\ ex' = [ex EXCEPT ![p] =
                  IF accepted
                  THEN [@ EXCEPT !.pc = "itemCompleted",
                                 !.payout = [id |-> <<"po", p, s.id>>,
                                             transactionHash |-> NULL]]
                  ELSE [@ EXCEPT !.pc = "itemFailed",
                                 !.error = <<"gateway error">>]]
  /\ UNCHANGED <<workers, runs, items, audit, tx, gasTxs, pmOps,
                 transfers, routes, resp, prismaInScope, mon, failedLog, opMon, rt,
                 circleCalls>>

\* a field given as undefined is left as it is by update()
Defined(new, old) == IF new = NULL THEN old ELSE new

\* ExecItemCompleted without the payment reference
ExecItemCompleted_NoReference(p) ==
  /\ ex[p].pc = "itemCompleted"
  /\ LET i == ex[p].snap[ex[p].idx].id
         c == [ex[p] EXCEPT !.idx = @ + 1, !.payout = NULL,
                 !.results = Append(@, [item |-> i, status |-> "completed"])]
     IN /\ items' = [items EXCEPT ![i] =
             [@ EXCEPT !.status = "COMPLETED", !.completedAt = TRUE]]
        /\ ex' = [ex EXCEPT ![p] = [c EXCEPT !.pc = LoopPc(c)]]
  /\ UNCHANGED <<workers, runs, audit, tx, gateway, gasTxs, pmOps,
                 transfers, routes, resp, prismaInScope, mon, failedLog, opMon, rt,
                 circleCalls>>

\* payrollItem.update({ status: COMPLETED, payoutId, ... }); results.push
ExecItemCompleted(p) ==
  /\ ex[p].pc = "itemCompleted"
  /\ LET i == ex[p].snap[ex[p].idx].id
         c == [ex[p] EXCEPT !.idx = @ + 1, !.payout = NULL,
                 !.results = Append(@, [item |-> i, status |-> "completed"])]
     IN /\ items' = [items EXCEPT ![i] =
             [@ EXCEPT !.status = "COMPLETED",
                       !.payoutId = ex[p].payout.id,
                       !.transactionHash =
                          Defined(ex[p].payout.transactionHash, @),
                       !.completedAt = TRUE]]
        /\ ex' = [ex EXCEPT ![p] = [c EXCEPT !.pc = LoopPc(c)]]
  /\ UNCHANGED <<workers, runs, audit, tx, gateway, gasTxs, pmOps,
                 transfers, routes, resp, prismaInScope, mon, failedLog, opMon, rt,
                 circleCalls>>

\* ExecItemFailed leaving the loop at the first failed item
ExecItemFailed_AbortsLoop(p) ==
  /\ ex[p].pc = "itemFailed"
  /\ LET i == ex[p].snap[ex[p].idx].id
     IN /\ items' = [items EXCEPT ![i] =
             [@ EXCEPT !.status = "FAILED", !.errorMessage = ex[p].error]]
        /\ ex' = [ex EXCEPT ![p] =
             [@ EXCEPT !.idx = @ + 1, !.error = NULL, !.pc = "finalize",
                !.results = Append(@, [item |-> i, status |-> "failed"])]]
  /\ UNCHANGED <<workers, runs, audit, tx, gateway, gasTxs, pmOps,
                 transfers, routes, resp, prismaInScope, mon, failedLog, opMon, rt,
                 circleCalls>>

\* the per-item catch: payrollItem.update({ status: FAILED }); results.push
ExecItemFailed(p) ==
  /\ ex[p].pc = "itemFailed"
  /\ LET i == ex[p].snap[ex[p].idx].id
         c == [ex[p] EXCEPT !.idx = @ + 1, !.error = NULL,
                 !.results = Append(@, [item |-> i, status |-> "failed"])]
     IN /\ items' = [items EXCEPT ![i] =
             [@ EXCEPT !.status = "FAILED", !.errorMessage = ex[p].error]]
        /\ ex' = [ex EXCEPT ![p] = [c EXCEPT !.pc = LoopPc(c)]]
  /\ UNCHANGED <<workers, runs, audit, tx, gateway, gasTxs, pmOps,
                 transfers, routes, resp, prismaInScope, mon, failedLog, opMon, rt,
                 circleCalls>>

CountStatus(results, st) ==
  Cardinality({k \in 1..Len(results) : results[k].status = st})

FinalStatus(results) ==
  LET completedCount == CountStatus(results, "completed")
      failedCount == CountStatus(results, "failed")
  IN IF failedCount = 0 THEN "COMPLETED"
     ELSE IF completedCount = 0 THEN "FAILED"
     ELSE "COMPLETED"

\* ExecFinalize writing the number of results into totalWorkers
ExecFinalize_Recounts(p) ==
  /\ ex[p].pc = "finalize"
  /\ runs' = [runs EXCEPT ![ex[p].run] =
        [@ EXCEPT !.status = FinalStatus(ex[p].results),
                  !.totalWorkers = CountStatus(ex[p].results, "completed"),
                  !.completedAt = TRUE]]
  /\ ex' = [ex EXCEPT ![p].pc = "done"]
  /\ UNCHANGED <<workers, items, audit, tx, gateway, gasTxs, pmOps,
                 transfers, routes, resp, prismaInScope, mon, failedLog, opMon, rt,
                 circleCalls>>

\* payrollRun.update({ status: finalStatus, completedAt })
ExecFinalize(p) ==
  /\ ex[p].pc = "finalize"
  /\ runs' = [runs EXCEPT ![ex[p].run] =
        [@ EXCEPT !.status = FinalStatus(ex[p].results),
                  !.completedAt = TRUE]]
  /\ ex' = [ex EXCEPT ![p].pc = "done"]
  /\ UNCHANGED <<workers, items, audit, tx, gateway, gasTxs, pmOps,
                 transfers, routes, resp, prismaInScope, mon, failedLog, opMon, rt,
                 circleCalls>>

\* ExecCatch without the write of FAILED
ExecCatch_NoWrite(p) ==
  /\ ex[p].pc = "catch"
  /\ ex' = [ex EXCEPT ![p].pc = "failed"]
  /\ UNCHANGED <<workers, runs, items, audit, tx, gateway, gasTxs, pmOps,
                 transfers, routes, resp, prismaInScope, mon, failedLog, opMon, rt,
                 circleCalls>>

\* the outer catch: payrollRun.update({ status: FAILED }).catch(() => {})
ExecCatch(p) ==
  /\ ex[p].pc = "catch"
  /\ runs' = IF RunExists(ex[p].run)
             THEN [runs EXCEPT ![ex[p].run].status = "FAILED"]
             ELSE runs
  /\ ex' = [ex EXCEPT ![p].pc = "failed"]
  /\ UNCHANGED <<workers, items, audit, tx, gateway, gasTxs, pmOps,
                 transfers, routes, resp, prismaInScope, mon, failedLog, opMon, rt,
                 circleCalls>>

\* the store call the executePayrollRun call is waiting for rejects: inside
\* the loop body the per-item catch takes over, in the per-item catch and
\* outside the loop the outer catch does, and a rejection of the outer
\* catch's own write is ignored, so that the call ends with nothing recorded
ExecStoreError(p) ==
  /\ ex[p].pc \in {"markProcessing", "itemProcessing", "itemCompleted",
                   "itemFailed", "finalize", "catch"}
  /\ ex' = [ex EXCEPT ![p] =
       CASE ex[p].pc \in {"itemProcessing", "itemCompleted"} ->
              [@ EXCEPT !.pc = "itemFailed", !.payout = NULL,
                        !.error = <<"store error">>]
         [] ex[p].pc = "catch" -> [@ EXCEPT !.pc = "unrecorded"]
         [] OTHER -> [@ EXCEPT !.pc = "catch", !.error = NULL]]
  /\ UNCHANGED <<workers, runs, items, audit, tx, gateway, gasTxs, pmOps,
                 transfers, routes, resp, prismaInScope, mon, failedLog, opMon, rt,
                 circleCalls>>

\* the read of the run rejects: the outer catch takes over
ExecFindError(p, r) ==
  /\ ex[p].pc = "idle"
  /\ \A q \in Calls : q < p => ex[q].pc # "idle"
  /\ r = NoSuchRun \/ RunExists(r)
  /\ ex' = [ex EXCEPT ![p] = [@ EXCEPT !.pc = "catch", !.run = r,
                                       !.reply = ExecuteReply]]
  /\ UNCHANGED <<workers, runs, items, audit, tx, gateway, gasTxs, pmOps,
                 transfers, routes, resp, prismaInScope, mon, failedLog, opMon, rt,
                 circleCalls>>

\* ------------------------------------------------------ webhookRoutes.ts
\* crypto.createHmac('sha256', WEBHOOK_SECRET).update(payload).digest('hex'):
\* a keyed digest, one value per payload
HmacHex(payload) == <<"hmac", payload>>

\* a signature header is a prefix followed by the hex digest of some payload
SigOf(prefix, payload) == <<prefix, HmacHex(payload)>>

\* JSON.stringify(req.body)
Stringify(body) == body

\* timingSafeEqual throws on a missing header or on a length mismatch and
\* the catch returns false
verifyWebhookSignature(payload, signature) ==
  /\ signature # NULL
  /\ signature = SigOf("sha256=", payload)

UnknownPayout == <<"po", 0, <<0, 0>>>>
IssuedPayouts ==
  {<<"po", g.call, g.item>> : g \in {h \in gateway : h.accepted}}
TxHashes == {<<"tx", "1">>}

\* switch (status.toLowerCase()) of updatePayoutStatus
NewPayoutStatus(status) ==
  CASE status \in {"complete", "completed"} -> "COMPLETED"
    [] status \in {"failed", "error"} -> "FAILED"
    [] OTHER -> "PROCESSING"

MatchingItems(payoutId) ==
  {i \in ItemIds : items[i].status # "NONE" /\ items[i].payoutId = payoutId}

\* findFirst({ where: { payoutId } })
FindFirstItem(payoutId) ==
  CHOOSE i \in MatchingItems(payoutId) :
    \A j \in MatchingItems(payoutId) : i[1] < j[1] \/ (i[1] = j[1] /\ i[2] <= j[2])

\* PayrollService.updatePayoutStatus: the item update and its audit record
updatePayoutStatus(payoutId, status, transactionHash) ==
  IF MatchingItems(payoutId) = {}
  THEN UNCHANGED <<items, audit>>
  ELSE LET i == FindFirstItem(payoutId)
           newStatus == NewPayoutStatus(status)
           entry == [eventType |-> "PAYOUT_STATUS_UPDATED", entityId |-> i,
                     payload |-> [payoutId |-> payoutId,
                                  oldStatus |-> items[i].status,
                                  newStatus |-> newStatus,
                                  transactionHash |-> transactionHash]]
       IN /\ items' = [items EXCEPT ![i] =
               [@ EXCEPT !.status = newStatus,
                         !.transactionHash = Defined(transactionHash, @),
                         !.completedAt = (@ \/ newStatus = "COMPLETED")]]
          /\ audit' = Append(audit, entry)

EmptyHash == <<"hash", "">>
OtherHash == <<"hash", "0xm1">>

\* updateMany({ where: { OR: [{ messageHash: id }, { transactionHash: id }] } })
TransferMatches(t, id) ==
  /\ transfers[t].status # "NONE"
  /\ transfers[t].messageHash = id \/ transfers[t].transactionHash = id

\* the values `new Date()` takes at the deliveries of one behaviour
Dates == {<<"at", 1>>, <<"at", 2>>}

\* data: { status: 'COMPLETED', transactionHash, completedAt: new Date() }
handleTransferCompleted(data, now) ==
  transfers' = [t \in TransferIds |->
    IF TransferMatches(t, data.id)
    THEN [transfers[t] EXCEPT !.status = "COMPLETED",
            !.transactionHash = Defined(data.transactionHash, @),
            !.completedAt = now]
    ELSE transfers[t]]

handleTransferFailed(data) ==
  transfers' = [t \in TransferIds |->
    IF TransferMatches(t, data.id)
    THEN [transfers[t] EXCEPT !.status = "FAILED",
            !.errorMessage = Defined(data.errorMessage, @)]
    ELSE transfers[t]]

Reply(route, code) == resp' = [route |-> route, code |-> code]

\* POST /api/webhooks/circle
CircleWebhook(body, signature) ==
  /\ IF ~verifyWebhookSignature(Stringify(body), signature)
     THEN /\ Reply("circle", 401)
          /\ UNCHANGED <<items, audit, transfers, failedLog, opMon, rt>>
     ELSE CASE body.eventType = "payouts.completed" ->
                 /\ updatePayoutStatus(body.data.id, "completed",
                                       body.data.transactionHash)
                 /\ Reply("circle", 200)
                 /\ UNCHANGED <<transfers, failedLog, opMon, rt>>
            [] body.eventType = "payouts.failed" ->
                 /\ updatePayoutStatus(body.data.id, "failed", NULL)
                 /\ failedLog' = failedLog \cup {body.data.id}
                 /\ Reply("circle", 200)
                 /\ UNCHANGED transfers
            [] body.eventType = "transfers.completed" ->
                 /\ IF prismaInScope
                    THEN /\ \E now \in Dates :
                              handleTransferCompleted(body.data, now)
                         /\ Reply("circle", 200)
                    ELSE UNCHANGED transfers /\ Reply("circle", 500)
                 /\ UNCHANGED <<items, audit, failedLog, opMon, rt>>
            [] body.eventType = "transfers.failed" ->
                 /\ IF prismaInScope
                    THEN handleTransferFailed(body.data) /\ Reply("circle", 200)
                    ELSE UNCHANGED transfers /\ Reply("circle", 500)
                 /\ UNCHANGED <<items, audit, failedLog, opMon, rt>>
            [] OTHER ->
                 /\ Reply("circle", 200)
                 /\ UNCHANGED <<items, audit, transfers, failedLog, opMon, rt>>
  /\ UNCHANGED <<workers, runs, tx, ex, gateway, gasTxs, pmOps, routes,
                 prismaInScope, mon, opMon, rt,
                 circleCalls>>

\* POST /api/webhooks/cctp; the signature header is never read
CctpWebhook(body, signature) ==
  /\ IF body.status = "attested" /\ body.attestation # NULL
     THEN IF prismaInScope
          THEN /\ transfers' = [t \in TransferIds |->
                    IF transfers[t].status # "NONE"
                       /\ transfers[t].messageHash = body.messageHash
                    THEN [transfers[t] EXCEPT !.attestation = body.attestation,
                                              !.status = "ATTESTED"]
                    ELSE transfers[t]]
               /\ Reply("cctp", 200)
          ELSE UNCHANGED transfers /\ Reply("cctp", 500)
     ELSE UNCHANGED transfers /\ Reply("cctp", 200)
  /\ UNCHANGED <<workers, runs, items, audit, tx, ex, gateway, gasTxs, pmOps,
                 routes, prismaInScope, mon, failedLog, opMon, rt,
                 circleCalls>>

\* updateMany({ where: { userOpHash }, data: { status, transactionHash, ... } })
UpdateOps(table, id, status, transactionHash) ==
  [o \in OpIds |->
     IF table[o].status # "NONE" /\ o = id
     THEN [table[o] EXCEPT !.status = status,
             !.transactionHash = Defined(transactionHash, @),
             !.completedAt = (@ \/ status = "completed")]
     ELSE table[o]]

\* POST /api/webhooks/gas-station; the signature header is never read
GasStationWebhook(body, signature) ==
  /\ IF prismaInScope
     THEN /\ gasTxs' = UpdateOps(gasTxs, body.transactionId, body.status,
                                 body.transactionHash)
          /\ Reply("gas-station", 200)
     ELSE UNCHANGED gasTxs /\ Reply("gas-station", 500)
  /\ UNCHANGED <<workers, runs, items, audit, tx, ex, gateway, pmOps,
                 transfers, routes, prismaInScope, mon, failedLog, opMon, rt,
                 circleCalls>>

\* POST /api/webhooks/paymaster; the signature header is never read
PaymasterWebhook(body, signature) ==
  /\ IF prismaInScope
     THEN /\ pmOps' = UpdateOps(pmOps, body.userOpHash, body.status,
                                body.transactionHash)
          /\ Reply("paymaster", 200)
     ELSE UNCHANGED pmOps /\ Reply("paymaster", 500)
  /\ UNCHANGED <<workers, runs, items, audit, tx, ex, gateway, gasTxs,
                 transfers, routes, prismaInScope, mon, failedLog, opMon, rt,
                 circleCalls>>

\* ------------------------------------------------------- workerRoutes.ts
HasWallet(w) == workers[w].exists /\ workers[w].walletId # NULL

\* a request a worker endpoint sends to a provider for operation o of worker
\* w; no executePayrollRun call stands behind it
ProviderRequest(w, o, path, accepted) ==
  [call |-> 0, item |-> <<w, o>>, path |-> path, accepted |-> accepted]

\* POST /api/workers/:id/gasless-transaction; o is the id the provider issues
GaslessTransaction(w, o, accepted) ==
  /\ gasTxs[o].status = "NONE"
  /\ IF ~HasWallet(w)
     THEN /\ Reply("gasless-transaction", 404)
          /\ UNCHANGED <<gateway, gasTxs>>
     ELSE /\ gateway' = gateway \cup {ProviderRequest(w, o, "sponsor", accepted)}
          /\ gasTxs' = IF accepted
                       THEN [gasTxs EXCEPT ![o] =
                               [NoOp EXCEPT !.status = "pending"]]
                       ELSE gasTxs
          /\ Reply("gasless-transaction", IF accepted THEN 200 ELSE 500)
  /\ UNCHANGED <<workers, runs, items, audit, tx, ex, pmOps,
                 transfers, routes, prismaInScope, mon, failedLog, opMon, rt,
                 circleCalls>>

\* paymasterConfig.maxGasFeeUSDC, '10.00', the default of the parameter
DefaultMaxGasFeeUSDC == <<1, 0>>

\* parseFloat(usdcGasFee) > parseFloat(maxGasFeeUSDC)
FeeExceedsMaximum(usdcGasFee, maxGasFeeUSDC) ==
  BigLess(parseFloat(Defined(maxGasFeeUSDC, DefaultMaxGasFeeUSDC)),
          parseFloat(usdcGasFee))

\* UsdcGasTransaction with the fee compared after the operation is submitted
UsdcGasTransaction_ChecksAfterSubmit(w, o, usdcGasFee, maxGasFeeUSDC, accepted) ==
  /\ pmOps[o].status = "NONE"
  /\ IF ~HasWallet(w)
     THEN /\ Reply("usdc-gas-transaction", 404)
          /\ UNCHANGED <<gateway, pmOps>>
     ELSE /\ gateway' = gateway \cup
                 {ProviderRequest(w, o, "permit", TRUE),
                  ProviderRequest(w, o, "bundler", accepted)}
          /\ pmOps' = IF accepted /\ ~FeeExceedsMaximum(usdcGasFee, maxGasFeeUSDC)
                      THEN [pmOps EXCEPT ![o] =
                              [NoOp EXCEPT !.status = "pending"]]
                      ELSE pmOps
          /\ Reply("usdc-gas-transaction",
                   IF accepted /\ ~FeeExceedsMaximum(usdcGasFee, maxGasFeeUSDC)
                   THEN 200 ELSE 500)
  /\ UNCHANGED <<workers, runs, items, audit, tx, ex, gasTxs,
                 transfers, routes, prismaInScope, mon, failedLog, opMon, rt,
                 circleCalls>>

\* POST /api/workers/:id/usdc-gas-transaction: createUserOperationWithUSDCGas
\* (fee from the gas estimate, the check against the maximum, the permit),
\* submitUserOperation, paymasterOperation.create
UsdcGasTransaction(w, o, usdcGasFee, maxGasFeeUSDC, accepted) ==
  /\ pmOps[o].status = "NONE"
  /\ IF ~HasWallet(w)
     THEN /\ Reply("usdc-gas-transaction", 404)
          /\ UNCHANGED <<gateway, pmOps>>
     ELSE IF FeeExceedsMaximum(usdcGasFee, maxGasFeeUSDC)
     THEN /\ Reply("usdc-gas-transaction", 500)
          /\ UNCHANGED <<gateway, pmOps>>
     ELSE /\ gateway' = gateway \cup
                 {ProviderRequest(w, o, "permit", TRUE),
                  ProviderRequest(w, o, "bundler", accepted)}
          /\ pmOps' = IF accepted
                      THEN [pmOps EXCEPT ![o] =
                              [NoOp EXCEPT !.status = "pending"]]
                      ELSE pmOps
          /\ Reply("usdc-gas-transaction", IF accepted THEN 200 ELSE 500)
  /\ UNCHANGED <<workers, runs, items, audit, tx, ex, gasTxs,
                 transfers, routes, prismaInScope, mon, failedLog, opMon, rt,
                 circleCalls>>

\* parseFloat(balance.balance) < parseFloat(amount)
InsufficientBalance(balance, amount) ==
  BigLess(parseFloat(balance), parseFloat(amount))

\* TransferRequest with the record created before the balance is read
TransferRequest_RecordFirst(w, t, balance, amount) ==
  /\ routes[t] = "idle"
  /\ IF ~HasWallet(w)
     THEN /\ routes' = [routes EXCEPT ![t] = "rejected"]
          /\ Reply("transfer", 404)
          /\ UNCHANGED transfers
     ELSE /\ transfers' = [transfers EXCEPT ![t] =
                             [NoTransfer EXCEPT !.status = "PENDING"]]
          /\ IF InsufficientBalance(balance, amount)
             THEN /\ routes' = [routes EXCEPT ![t] = "rejected"]
                  /\ Reply("transfer", 400)
             ELSE /\ routes' = [routes EXCEPT ![t] = "initiating"]
                  /\ UNCHANGED resp
  /\ UNCHANGED <<workers, runs, items, audit, tx, ex, gateway, gasTxs, pmOps,
                 prismaInScope, mon, failedLog, opMon, rt,
                 circleCalls>>

\* POST /api/workers/:id/transfer up to crossChainTransfer.create; the route
\* is then inside cctpService.initiateTransfer, the burn
TransferRequest(w, t, balance, amount) ==
  /\ routes[t] = "idle"
  /\ IF ~HasWallet(w)
     THEN /\ routes' = [routes EXCEPT ![t] = "rejected"]
          /\ Reply("transfer", 404)
          /\ UNCHANGED transfers
     ELSE IF InsufficientBalance(balance, amount)
     THEN /\ routes' = [routes EXCEPT ![t] = "rejected"]
          /\ Reply("transfer", 400)
          /\ UNCHANGED transfers
     ELSE /\ transfers' = [transfers EXCEPT ![t] =
                             [NoTransfer EXCEPT !.status = "PENDING"]]
          /\ routes' = [routes EXCEPT ![t] = "initiating"]
          /\ UNCHANGED resp
  /\ UNCHANGED <<workers, runs, items, audit, tx, ex, gateway, gasTxs, pmOps,
                 prismaInScope, mon, failedLog, opMon, rt,
                 circleCalls>>

\* cctpService.initiateTransfer returned: update({ messageHash: '' })
TransferInitiated(t) ==
  /\ routes[t] = "initiating"
  /\ transfers' = [transfers EXCEPT ![t].messageHash = EmptyHash]
  /\ routes' = [routes EXCEPT ![t] = "done"]
  /\ Reply("transfer", 200)
  /\ UNCHANGED <<workers, runs, items, audit, tx, ex, gateway, gasTxs, pmOps,
                 prismaInScope, mon, failedLog, opMon, rt,
                 circleCalls>>

\* cctpService.initiateTransfer threw: 500, the record stays as created
TransferInitFailed(t) ==
  /\ routes[t] = "initiating"
  /\ routes' = [routes EXCEPT ![t] = "failed"]
  /\ Reply("transfer", 500)
  /\ UNCHANGED <<workers, runs, items, audit, tx, ex, gateway, gasTxs, pmOps,
                 transfers, prismaInScope, mon, failedLog, opMon, rt,
                 circleCalls>>

\* ------------------------------------------- CCTPService.monitorTransfer
\* monitorTransfer(messageHash, maxAttempts): let attempts = 0
MonitorStart(maxAttempts) ==
  /\ mon.pc = "idle"
  /\ mon' = [NoMonitor EXCEPT !.pc = "loop", !.maxAttempts = maxAttempts]
  /\ UNCHANGED <<workers, runs, items, audit, tx, ex, gateway, gasTxs, pmOps,
                 transfers, routes, resp, prismaInScope, failedLog, opMon, rt,
                 circleCalls>>

\* what the attestation service answers: the HTTP status (0 when no answer
\* arrives within the 10 s timeout) and response.data.attestation
NoAnswer == 0
EmptyAttestation == <<"att", "">>
Responses ==
  [status : {200}, attestation : Attestations \cup {NULL, EmptyAttestation}]
  \cup [status : {404, 500, NoAnswer}, attestation : {NULL}]

\* JavaScript truthiness of response.data.attestation
Truthy(a) == a # NULL /\ a # EmptyAttestation

\* getAttestation with every failure reported as null
getAttestation_ErrorsAsNull(response) ==
  IF response.status = 200 /\ Truthy(response.attestation)
  THEN [threw |-> FALSE, value |-> response.attestation]
  ELSE [threw |-> FALSE, value |-> NULL]

\* CCTPService.getAttestation: axios rejects on every status but 2xx
getAttestation(response) ==
  IF response.status = 200
  THEN IF Truthy(response.attestation)
       THEN [threw |-> FALSE, value |-> response.attestation]
       ELSE [threw |-> FALSE, value |-> NULL]
  ELSE IF response.status = 404
  THEN [threw |-> FALSE, value |-> NULL]
  ELSE [threw |-> TRUE, value |-> NULL]

MonitorQuery_OneMore(response) ==
  /\ mon.pc = "loop"
  /\ mon.attempts <= mon.maxAttempts
  /\ LET out == getAttestation(response)
     IN mon' = IF out.threw
               THEN [mon EXCEPT !.queries = @ + 1, !.errors = @ + 1,
                                !.attempts = @ + 1, !.last = out]
               ELSE IF Truthy(out.value)
               THEN [mon EXCEPT !.queries = @ + 1, !.pc = "attested",
                                !.attestation = out.value, !.last = out]
               ELSE [mon EXCEPT !.queries = @ + 1, !.attempts = @ + 1,
                                !.last = out]
  /\ UNCHANGED <<workers, runs, items, audit, tx, ex, gateway, gasTxs, pmOps,
                 transfers, routes, resp, prismaInScope, failedLog, opMon, rt,
                 circleCalls>>

\* one turn of while (attempts < maxAttempts): getAttestation(messageHash)
\* throws, returns an attestation, or returns null
MonitorQuery(response) ==
  /\ mon.pc = "loop"
  /\ mon.attempts < mon.maxAttempts
  /\ LET out == getAttestation(response)
     IN mon' = IF out.threw
               THEN [mon EXCEPT !.queries = @ + 1, !.errors = @ + 1,
                                !.attempts = @ + 1, !.last = out]
               ELSE IF Truthy(out.value)
               THEN [mon EXCEPT !.queries = @ + 1, !.pc = "attested",
                                !.attestation = out.value, !.last = out]
               ELSE [mon EXCEPT !.queries = @ + 1, !.attempts = @ + 1,
                                !.last = out]
  /\ UNCHANGED <<workers, runs, items, audit, tx, ex, gateway, gasTxs, pmOps,
                 transfers, routes, resp, prismaInScope, failedLog, opMon, rt,
                 circleCalls>>

\* the loop is left: throw new Error('Transfer monitoring timeout')
MonitorTimeout ==
  /\ mon.pc = "loop"
  /\ ~(mon.attempts < mon.maxAttempts)
  /\ mon' = [mon EXCEPT !.pc = "timeout"]
  /\ UNCHANGED <<workers, runs, items, audit, tx, ex, gateway, gasTxs, pmOps,
                 transfers, routes, resp, prismaInScope, failedLog, opMon, rt,
                 circleCalls>>

\* ------------------------------------ PaymasterService.monitorUserOperation
MonitorOpStart(maxAttempts) ==
  /\ opMon.pc = "idle"
  /\ opMon' = [NoOpMonitor EXCEPT !.pc = "loop", !.maxAttempts = maxAttempts]
  /\ UNCHANGED <<workers, runs, items, audit, tx, ex, gateway, gasTxs, pmOps,
                 transfers, routes, resp, prismaInScope, mon, failedLog, rt,
                 circleCalls>>

\* eth_getUserOperationReceipt: no receipt yet, or the receipt of an
\* operation that succeeded or reverted
GasUsed == <<"gas", "21000">>
GasFee == <<"fee", "0.1">>
Receipts ==
  {[found |-> FALSE, success |-> FALSE]} \cup [found : {TRUE}, success : BOOLEAN]

\* one turn of while (attempts < maxAttempts): the receipt query throws
\* (threw), or calculateUSDCGasFee does (feeThrew), or the receipt decides
MonitorOpQuery(receipt, threw, feeThrew) ==
  /\ opMon.pc = "loop"
  /\ opMon.attempts < opMon.maxAttempts
  /\ threw => ~receipt.found /\ ~feeThrew
  /\ feeThrew => receipt.found
  /\ opMon' =
       IF threw \/ feeThrew \/ ~receipt.found
       THEN [opMon EXCEPT !.queries = @ + 1, !.attempts = @ + 1]
       ELSE [opMon EXCEPT !.queries = @ + 1, !.pc = "returned",
               !.result = [status |-> IF receipt.success THEN "completed"
                                      ELSE "failed",
                           gasUsed |-> GasUsed, gasFeeInUSDC |-> GasFee]]
  /\ UNCHANGED <<workers, runs, items, audit, tx, ex, gateway, gasTxs, pmOps,
                 transfers, routes, resp, prismaInScope, mon, failedLog, rt,
                 circleCalls>>

\* the loop is left: return { status: 'failed', gasUsed: undefined, ... }
MonitorOpTimeout ==
  /\ opMon.pc = "loop"
  /\ ~(opMon.attempts < opMon.maxAttempts)
  /\ opMon' = [opMon EXCEPT !.pc = "timeout",
                  !.result = [NoOperation EXCEPT !.status = "failed"]]
  /\ UNCHANGED <<workers, runs, items, audit, tx, ex, gateway, gasTxs, pmOps,
                 transfers, routes, resp, prismaInScope, mon, failedLog, rt,
                 circleCalls>>

\* ------------------------------------------------------------ utils.retry
\* retry(fn, retries, delay) entered
RetryStart(retries, delay) ==
  /\ rt.pc = "idle"
  /\ rt' = [NoRetry EXCEPT !.pc = "call",
                           !.args = [retries |-> retries, delay |-> delay],
                           !.retries = retries, !.delay = delay]
  /\ UNCHANGED <<workers, runs, items, audit, tx, ex, gateway, gasTxs, pmOps,
                 transfers, routes, resp, prismaInScope, mon, failedLog, opMon,
                 circleCalls>>

\* RetryInvoke retrying once more when no retries are left
RetryInvoke_RetriesAtZero(ok, outcome) ==
  /\ rt.pc = "call"
  /\ rt' = IF ok
           THEN [rt EXCEPT !.calls = @ + 1, !.pc = "returned",
                           !.result = outcome]
           ELSE IF rt.retries >= 0
           THEN [rt EXCEPT !.calls = @ + 1, !.pc = "sleep", !.error = outcome]
           ELSE [rt EXCEPT !.calls = @ + 1, !.pc = "thrown", !.error = outcome,
                           !.result = outcome]
  /\ UNCHANGED <<workers, runs, items, audit, tx, ex, gateway, gasTxs, pmOps,
                 transfers, routes, resp, prismaInScope, mon, failedLog, opMon,
                 circleCalls>>

\* return await fn(), and the catch's choice between sleeping and throwing
RetryInvoke(ok, outcome) ==
  /\ rt.pc = "call"
  /\ rt' = IF ok
           THEN [rt EXCEPT !.calls = @ + 1, !.pc = "returned",
                           !.result = outcome]
           ELSE IF rt.retries > 0
           THEN [rt EXCEPT !.calls = @ + 1, !.pc = "sleep", !.error = outcome]
           ELSE [rt EXCEPT !.calls = @ + 1, !.pc = "thrown", !.error = outcome,
                           !.result = outcome]
  /\ UNCHANGED <<workers, runs, items, audit, tx, ex, gateway, gasTxs, pmOps,
                 transfers, routes, resp, prismaInScope, mon, failedLog, opMon,
                 circleCalls>>

\* await sleep(delay); return retry(fn, retries - 1, delay * 2)
RetrySleep ==
  /\ rt.pc = "sleep"
  /\ rt' = [rt EXCEPT !.pc = "call", !.slept = Append(@, rt.delay),
                      !.retries = @ - 1, !.delay = @ * 2, !.error = NULL]
  /\ UNCHANGED <<workers, runs, items, audit, tx, ex, gateway, gasTxs, pmOps,
                 transfers, routes, resp, prismaInScope, mon, failedLog, opMon,
                 circleCalls>>

\* ---------------------------------------------------------- specifications
PayoutIdsSeen == IssuedPayouts \cup {UnknownPayout}

PayoutBodies ==
  [eventType : {"payouts.completed"},
   data : [id : PayoutIdsSeen, transactionHash : TxHashes \cup {NULL}]]
  \cup
  [eventType : {"payouts.failed"},
   data : [id : PayoutIdsSeen, transactionHash : {NULL}]]

\* the same notification with another event type: a different payload
Tampered(body) ==
  [body EXCEPT !.eventType =
     CASE @ = "payouts.completed" -> "payouts.failed"
       [] @ = "payouts.failed" -> "payouts.completed"
       [] @ = "transfers.completed" -> "transfers.failed"
       [] OTHER -> "transfers.completed"]

\* missing, well formed, without the prefix, and the signature of another payload
SignaturesFor(body) ==
  {NULL, SigOf("sha256=", body), SigOf("", body), SigOf("sha256=", Tampered(body))}

Init ==
  /\ InitStore
  /\ prismaInScope = FALSE

Create ==
  \/ \E r \in FirstRun, request \in Requests : CreateBegin(r, request)
  \/ \E r \in RunIds, recipientOk \in BOOLEAN, walletOk \in BOOLEAN :
        CreateRow(r, recipientOk, walletOk)
  \/ \E r \in RunIds : CreateCommit(r)
  \/ \E r \in RunIds : CreateAbort(r)

Execute ==
  \/ \E p \in Calls, r \in RunIds \cup {NoSuchRun} : ExecFind(p, r)
  \/ \E p \in Calls : ExecMarkProcessing(p)
  \/ \E p \in Calls : ExecItemProcessing(p)
  \/ \E p \in Calls, accepted \in BOOLEAN : ExecDispatch(p, accepted)
  \/ \E p \in Calls : ExecItemCompleted(p)
  \/ \E p \in Calls : ExecItemFailed(p)
  \/ \E p \in Calls : ExecFinalize(p)
  \/ \E p \in Calls : ExecCatch(p)

PayoutUpdates ==
  Cardinality({k \in 1..Len(audit) :
                 audit[k].eventType = "PAYOUT_STATUS_UPDATED"})

PayoutWebhook(max) ==
  /\ PayoutUpdates < max
  /\ Cardinality(failedLog) < max
  /\ \E body \in PayoutBodies : \E signature \in SignaturesFor(body) :
        CircleWebhook(body, signature)

Next == Create \/ Execute \/ PayoutWebhook(MaxDeliveries)

Spec == Init /\ [][Next]_vars

\* one executePayrollRun call at a time, payout notifications redelivered
ExecuteOnce ==
  \/ \E r \in RunIds \cup {NoSuchRun} : ExecFind(1, r)
  \/ ExecMarkProcessing(1)
  \/ ExecItemProcessing(1)
  \/ \E accepted \in BOOLEAN : ExecDispatch(1, accepted)
  \/ ExecItemCompleted(1)
  \/ ExecItemFailed(1)
  \/ ExecFinalize(1)
  \/ ExecCatch(1)

\* createPayrollRun alone, amounts up to 2^53 + 1
LargeAmounts == {<<1>>, <<9, 0, 0, 7, 1, 9, 9, 2, 5, 4, 7, 4, 0, 9, 9, 3>>}
LargeRequests ==
  UNION {[1..n -> [name : Names, email : Emails, amount : LargeAmounts,
                   chain : Chains]] :
           n \in 0..MaxRows}

CreateLarge ==
  \/ \E r \in FirstRun, request \in LargeRequests : CreateBegin(r, request)
  \/ \E r \in RunIds, recipientOk \in BOOLEAN, walletOk \in BOOLEAN :
        CreateRow(r, recipientOk, walletOk)
  \/ \E r \in RunIds : CreateCommit(r)
  \/ \E r \in RunIds : CreateAbort(r)

NextTotals == CreateLarge

SpecTotals == Init /\ [][NextTotals]_vars

NextRecon == Create \/ ExecuteOnce \/ PayoutWebhook(MaxRedeliveries)

SpecRecon == Init /\ [][NextRecon]_vars

\* The worker endpoints and the tables their webhooks reconcile.  The store
\* is the one a createPayrollRun call with a single row leaves behind, the
\* worker provisioned with a recipient and a wallet.
InitProvisioned ==
  /\ workers = [e \in Emails |->
        IF e = 1 THEN [exists |-> TRUE, name |-> "ann",
                       recipientId |-> <<"rcp", 1>>,
                       walletId |-> <<"wal", 1>>]
        ELSE NoWorker]
  /\ runs = [r \in RunIds |->
        IF r = 1 THEN [NoRun EXCEPT !.status = "PENDING",
                           !.totalAmount = <<0, 1, 0>>,
                                    !.totalWorkers = 1]
        ELSE NoRun]
  /\ items = [i \in ItemIds |->
        IF i = <<1, 1>>
        THEN [NoItem EXCEPT !.status = "PENDING", !.payrollRunId = 1,
                            !.workerId = 1,
                            !.amount = <<1>>, !.chain = "ETHEREUM"]
        ELSE NoItem]
  /\ audit = <<[eventType |-> "PAYROLL_ITEM_CREATED", entityId |-> <<1, 1>>,
                payload |-> [amount |-> <<1>>, chain |-> "ethereum",
                             workerEmail |-> 1]],
               [eventType |-> "PAYROLL_RUN_CREATED", entityId |-> <<1>>,
                payload |-> [totalAmount |-> <<0, 1, 0>>, totalWorkers |-> 1]]>>
  /\ tx = [r \in RunIds |->
        IF r = 1 THEN [NoTx EXCEPT !.pc = "done", !.status = "PENDING"]
        ELSE NoTx]
  /\ ex = [p \in Calls |-> NoCall]
  /\ gateway = {}
  /\ gasTxs = [o \in OpIds |-> NoOp]
  /\ pmOps = [o \in OpIds |-> NoOp]
  /\ transfers = [t \in TransferIds |-> NoTransfer]
  /\ routes = [t \in TransferIds |-> "idle"]
  /\ resp = NoResp
  /\ mon = NoMonitor
  /\ failedLog = {}
  /\ opMon = NoOpMonitor
  /\ rt = NoRetry
  /\ circleCalls = ProvisioningCalls(1, 1, TRUE, TRUE)
  /\ prismaInScope \in BOOLEAN

\* executePayrollRun with a store that may reject any call.  Every step of a
\* call that has started is taken in the end: each awaited promise settles
\* and the event loop resumes the call.
ExecStep(p) ==
  \/ ExecMarkProcessing(p)
  \/ ExecItemProcessing(p)
  \/ \E accepted \in BOOLEAN : ExecDispatch(p, accepted)
  \/ ExecItemCompleted(p)
  \/ ExecItemFailed(p)
  \/ ExecFinalize(p)
  \/ ExecCatch(p)
  \/ ExecStoreError(p)

NextLive ==
  \/ \E p \in Calls, r \in RunIds \cup {NoSuchRun} : ExecFind(p, r)
  \/ \E p \in Calls, r \in RunIds \cup {NoSuchRun} : ExecFindError(p, r)
  \/ \E p \in Calls : ExecStep(p)

SpecLive ==
  /\ InitProvisioned
  /\ [][NextLive]_vars
  /\ \A p \in Calls : WF_vars(ExecStep(p))

WebhookStatuses == {"pending", "processing", "completed", "failed"}
UnknownOp == 0

GasStationBodies ==
  [transactionId : OpIds \cup {UnknownOp}, status : WebhookStatuses,
   transactionHash : TxHashes \cup {NULL}]

PaymasterBodies ==
  [userOpHash : OpIds \cup {UnknownOp}, status : WebhookStatuses,
   transactionHash : TxHashes \cup {NULL}]

\* fees of 5, 10 and 11 USDC; maxima of 5 and 10 USDC, or none given
GasFees == {<<5>>, <<1, 0>>, <<1, 1>>}
MaxGasFees == {NULL, <<5>>, <<1, 0>>}

WorkerOps ==
  \/ \E w \in Emails, o \in OpIds, accepted \in BOOLEAN :
        GaslessTransaction(w, o, accepted)
  \/ \E w \in Emails, o \in OpIds, usdcGasFee \in GasFees,
        maxGasFeeUSDC \in MaxGasFees, accepted \in BOOLEAN :
        UsdcGasTransaction(w, o, usdcGasFee, maxGasFeeUSDC, accepted)

OpWebhooks ==
  \/ \E body \in GasStationBodies : \E signature \in SignaturesFor(body) :
        GasStationWebhook(body, signature)
  \/ \E body \in PaymasterBodies : \E signature \in SignaturesFor(body) :
        PaymasterWebhook(body, signature)

NextOps == WorkerOps \/ OpWebhooks

SpecOps == InitProvisioned /\ [][NextOps]_vars

Errors == {<<"err", "1">>}

CctpBodies ==
  [messageHash : {EmptyHash, OtherHash}, status : {"attested", "pending"},
   attestation : Attestations \cup {NULL}]

TransferBodies ==
  [eventType : {"transfers.completed", "transfers.failed", "transfers.created"},
   data : [id : {EmptyHash, OtherHash} \cup TxHashes,
           transactionHash : TxHashes \cup {NULL},
           errorMessage : Errors \cup {NULL}]]

\* wallet balances and requested amounts, as digit strings
Balances == {<<5>>, <<1, 0>>}
TransferAmounts == {<<5>>, <<6>>, <<1, 0>>, <<1, 1>>}

TransferRoute ==
  \/ \E w \in Emails, t \in TransferIds :
        \E balance \in Balances, amount \in TransferAmounts :
           TransferRequest(w, t, balance, amount)
  \/ \E t \in TransferIds : TransferInitiated(t)
  \/ \E t \in TransferIds : TransferInitFailed(t)

TransferWebhooks ==
  \/ \E body \in CctpBodies : \E signature \in SignaturesFor(body) :
        CctpWebhook(body, signature)
  \/ \E body \in TransferBodies : \E signature \in SignaturesFor(body) :
        CircleWebhook(body, signature)

NextTransfers == TransferRoute \/ TransferWebhooks

SpecTransfers == InitProvisioned /\ [][NextTransfers]_vars

MonitorStep ==
  \/ \E response \in Responses : MonitorQuery(response)
  \/ MonitorTimeout

Monitor ==
  \/ \E maxAttempts \in 0..MaxAttempts : MonitorStart(maxAttempts)
  \/ MonitorStep

NextMonitor == TransferRoute \/ Monitor

\* every getAttestation call returns or throws, so the loop keeps stepping
SpecMonitor == InitProvisioned /\ [][NextMonitor]_vars /\ WF_vars(MonitorStep)

\* createPayrollRun calls interleaved, their rows naming workers
BatchNames == {"ann", "bob"}
BatchRequests ==
  UNION {[1..n -> [name : BatchNames, email : Emails, amount : Amounts,
                   chain : Chains]] : n \in 0..MaxRows}

NextBatches ==
  \/ \E r \in RunIds, request \in BatchRequests : CreateBegin(r, request)
  \/ \E r \in RunIds, recipientOk \in BOOLEAN, walletOk \in BOOLEAN :
        CreateRow(r, recipientOk, walletOk)
  \/ \E r \in RunIds : CreateCommit(r)
  \/ \E r \in RunIds : CreateAbort(r)

SpecBatches == Init /\ [][NextBatches]_vars

\* two runs as two createPayrollRun calls leave them: the first pays worker
\* 1, the second pays worker 1 and worker 2; worker 1 has a wallet and a
\* recipient, worker 2 a recipient only
PairRequests ==
  <<  <<[name |-> "ann", email |-> 1, amount |-> <<1>>, chain |-> "ethereum"]>>,
      <<[name |-> "ann", email |-> 1, amount |-> <<1>>, chain |-> "ethereum"],
        [name |-> "bob", email |-> 2, amount |-> <<1>>, chain |-> "ethereum"]>>  >>

InitPair ==
  /\ workers = [e \in Emails |->
        IF e = 1 THEN [exists |-> TRUE, name |-> "ann",
                       recipientId |-> <<"rcp", 1>>,
                       walletId |-> <<"wal", 1>>]
        ELSE IF e = 2 THEN [exists |-> TRUE, name |-> "bob",
                            recipientId |-> <<"rcp", 2>>, walletId |-> NULL]
        ELSE NoWorker]
  /\ runs = [r \in RunIds |->
        IF r \in DOMAIN PairRequests
        THEN [NoRun EXCEPT !.status = "PENDING",
                           !.totalAmount = totalAmount(PairRequests[r]),
                           !.totalWorkers = Len(PairRequests[r])]
        ELSE NoRun]
  /\ items = [i \in ItemIds |->
        IF i[1] \in DOMAIN PairRequests /\ i[2] <= Len(PairRequests[i[1]])
        THEN [NoItem EXCEPT !.status = "PENDING", !.payrollRunId = i[1],
                            !.workerId = PairRequests[i[1]][i[2]].email,
                            !.amount = PairRequests[i[1]][i[2]].amount,
                            !.chain = ToUpperCase(PairRequests[i[1]][i[2]].chain)]
        ELSE NoItem]
  /\ audit =
       <<[eventType |-> "PAYROLL_ITEM_CREATED", entityId |-> <<1, 1>>,
          payload |-> [amount |-> <<1>>, chain |-> "ethereum",
                       workerEmail |-> 1]],
         [eventType |-> "PAYROLL_RUN_CREATED", entityId |-> <<1>>,
          payload |-> [totalAmount |-> totalAmount(PairRequests[1]),
                       totalWorkers |-> 1]],
         [eventType |-> "PAYROLL_ITEM_CREATED", entityId |-> <<2, 1>>,
          payload |-> [amount |-> <<1>>, chain |-> "ethereum",
                       workerEmail |-> 1]],
         [eventType |-> "PAYROLL_ITEM_CREATED", entityId |-> <<2, 2>>,
          payload |-> [amount |-> <<1>>, chain |-> "ethereum",
                       workerEmail |-> 2]],
         [eventType |-> "PAYROLL_RUN_CREATED", entityId |-> <<2>>,
          payload |-> [totalAmount |-> totalAmount(PairRequests[2]),
                       totalWorkers |-> 2]]>>
  /\ tx = [r \in RunIds |->
        IF r \in DOMAIN PairRequests
        THEN [NoTx EXCEPT !.pc = "done", !.status = "PENDING"]
        ELSE NoTx]
  /\ ex = [p \in Calls |-> NoCall]
  /\ gateway = {}
  /\ gasTxs = [o \in OpIds |-> NoOp]
  /\ pmOps = [o \in OpIds |-> NoOp]
  /\ transfers = [t \in TransferIds |-> NoTransfer]
  /\ routes = [t \in TransferIds |-> "idle"]
  /\ resp = NoResp
  /\ mon = NoMonitor
  /\ failedLog = {}
  /\ opMon = NoOpMonitor
  /\ rt = NoRetry
  /\ circleCalls = ProvisioningCalls(1, 1, TRUE, TRUE)
                    \cup ProvisioningCalls(2, 2, TRUE, FALSE)
  /\ prismaInScope = FALSE

\* executePayrollRun calls on the two runs, their steps interleaved
NextPair == Execute

SpecPair == InitPair /\ [][NextPair]_vars

MonitorOpStep ==
  \/ \E receipt \in Receipts, threw \in BOOLEAN, feeThrew \in BOOLEAN :
        MonitorOpQuery(receipt, threw, feeThrew)
  \/ MonitorOpTimeout

NextOpMonitor ==
  \/ WorkerOps
  \/ \E maxAttempts \in 0..MaxAttempts : MonitorOpStart(maxAttempts)
  \/ MonitorOpStep

\* every receipt query returns or throws, so the loop keeps stepping
SpecOpMonitor ==
  InitProvisioned /\ [][NextOpMonitor]_vars /\ WF_vars(MonitorOpStep)

\* what fn resolves to and what it rejects with
Values == {<<"val", "1">>, <<"val", "2">>}
Failures == {<<"err", "1">>, <<"err", "2">>}
Delays == {1, 2, 3}

RetryStep ==
  \/ \E value \in Values : RetryInvoke(TRUE, value)
  \/ \E error \in Failures : RetryInvoke(FALSE, error)
  \/ RetrySleep

NextRetry ==
  \/ \E retries \in 0..MaxRetries, delay \in Delays : RetryStart(retries, delay)
  \/ RetryStep

\* fn terminates and the timer of sleep fires
SpecRetry == Init /\ [][NextRetry]_vars /\ WF_vars(RetryStep)

\* ------------------------------------------------------------------ claims
\* the status of run r as its creator or any reader sees it
RunStatus(r) == IF runs[r].status # "NONE" THEN runs[r].status ELSE tx[r].status

RunStepAllowed(a, b) ==
  \/ a = b
  \/ a = "NONE"
  \/ b = "NONE"
  \/ <<a, b>> \in {<<"DRAFT", "PENDING">>, <<"PENDING", "PROCESSING">>,
                   <<"PROCESSING", "COMPLETED">>, <<"PROCESSING", "FAILED">>}

\* C1: a run's status changes only along DRAFT -> PENDING -> PROCESSING ->
\* COMPLETED or PROCESSING -> FAILED; a COMPLETED or FAILED run never changes
\* status again and no run goes back to an earlier status.
C1_RunLifecycle ==
  [][\A r \in RunIds : RunStepAllowed(RunStatus(r), RunStatus(r)')]_vars

ItemRank(st) ==
  CASE st = "NONE" -> 0
    [] st = "PENDING" -> 1
    [] st = "PROCESSING" -> 2
    [] OTHER -> 3

ItemStepAllowed(a, b) ==
  /\ ItemRank(a) <= ItemRank(b)
  /\ a \in {"COMPLETED", "FAILED"} => b = a

\* C2: the status of every payroll item only moves forward along PENDING ->
\* PROCESSING -> COMPLETED or FAILED: it never regresses, and once COMPLETED
\* or FAILED it never changes to a different status.
C2_ItemMonotonic ==
  [][\A i \in ItemIds : ItemStepAllowed(items[i].status, items'[i].status)]_vars

\* C3: an executePayrollRun call that finds the run PROCESSING, COMPLETED or
\* FAILED fails with the 400 state error, and neither its first step nor any
\* later step of that call sets an item to PROCESSING or sends a request to
\* the gateway.
C3_SecondExecuteRejected ==
  [][\A p \in Calls :
       /\ (/\ ex[p].pc = "idle"
           /\ ex'[p].pc # "idle"
           /\ RunExists(ex'[p].run)
           /\ runs[ex'[p].run].status \in {"PROCESSING", "COMPLETED", "FAILED"})
          => /\ ex'[p].pc = "catch"
             /\ ex'[p].statusCode = 400
             /\ UNCHANGED <<items, gateway>>
       /\ (ex[p].statusCode = 400 /\ ex'[p] # ex[p])
          => /\ ex'[p].pc = "failed"
             /\ ex'[p].statusCode = 400
             /\ ex'[p].results = <<>>
             /\ UNCHANGED <<items, gateway>>]_vars

\* a rejected second call on a run whose items an earlier call dispatched
C3_Witness ==
  \E p \in Calls :
     /\ ex[p].pc = "failed"
     /\ ex[p].statusCode = 400
     /\ \E g \in gateway : g.item[1] = ex[p].run /\ g.call # p

\* C4: under any interleaving of executePayrollRun calls on one run, every
\* item is dispatched to a payment path at most once: the gateway accepts at
\* most one payment request for it.
C4_DispatchedOnce ==
  \A i \in ItemIds :
     Cardinality({g \in gateway : g.item = i /\ g.accepted}) <= 1

ResultItems(p, st) ==
  {ex[p].results[k].item :
     k \in {n \in 1..Len(ex[p].results) : ex[p].results[n].status = st}}

RunItems(r) == {i \in ItemIds : i[1] = r /\ items[i].status # "NONE"}

\* no other call has written an item of p's run and no payout notification
\* has been applied to one
Undisturbed(p) ==
  /\ \A q \in Calls \ {p} :
        ex[q].run = ex[p].run =>
           ex[q].pc \in {"markProcessing", "catch", "failed"}
  /\ \A k \in 1..Len(audit) :
        audit[k].eventType = "PAYOUT_STATUS_UPDATED" =>
           audit[k].entityId[1] # ex[p].run

MixedOutcome(p) ==
  ResultItems(p, "failed") # {} /\ ResultItems(p, "completed") # {}

\* C5: an executePayrollRun call that ran alone has, when it finishes,
\* processed every item of the run exactly once whatever failed before it,
\* left the items whose dispatch failed FAILED and the items whose dispatch
\* succeeded COMPLETED, and, when some dispatches failed and some succeeded,
\* leaves the run COMPLETED.
C5_PartialFailure ==
  [][\A p \in Calls :
       (/\ ex[p].pc = "finalize"
        /\ ex'[p].pc = "done"
        /\ Undisturbed(p))
       => LET r == ex[p].run
              failed == ResultItems(p, "failed")
              succeeded == ResultItems(p, "completed")
          IN /\ failed \cup succeeded = RunItems(r)
             /\ Len(ex[p].results) = Cardinality(RunItems(r))
             /\ succeeded = {g.item : g \in {h \in gateway :
                                              h.call = p /\ h.accepted}}
             /\ \A i \in failed : items'[i].status = "FAILED"
             /\ \A i \in succeeded : items'[i].status = "COMPLETED"
             /\ MixedOutcome(p) => runs'[r].status = "COMPLETED"]_vars

\* a finished call whose first dispatch failed and whose second succeeded
C5_Witness ==
  \E p \in Calls :
     /\ ex[p].pc = "done"
     /\ Undisturbed(p)
     /\ Len(ex[p].results) = 2
     /\ ex[p].results[1].status = "failed"
     /\ ex[p].results[2].status = "completed"
     /\ runs[ex[p].run].status = "COMPLETED"
     /\ items[ex[p].results[1].item].status = "FAILED"
     /\ items[ex[p].results[2].item].status = "COMPLETED"

\* C6: the final status executePayrollRun writes is COMPLETED if at least one
\* dispatch succeeded and FAILED otherwise, a run without items included.
C6_FinalStatus ==
  [][\A p \in Calls :
       (ex[p].pc = "finalize" /\ ex'[p].pc = "done")
       => runs'[ex[p].run].status =
            IF CountStatus(ex[p].results, "completed") >= 1
            THEN "COMPLETED" ELSE "FAILED"]_vars

OpRank(st) ==
  CASE st = "NONE" -> 0
    [] st = "pending" -> 1
    [] st = "processing" -> 2
    [] OTHER -> 3

OpStepAllowed(a, b) ==
  /\ OpRank(a) <= OpRank(b)
  /\ a \in {"completed", "failed"} => b = a

TransferStepAllowed(a, b) ==
  \/ a = b
  \/ <<a, b>> \in {<<"NONE", "PENDING">>, <<"PENDING", "ATTESTED">>,
                   <<"ATTESTED", "COMPLETED">>, <<"PENDING", "FAILED">>,
                   <<"ATTESTED", "FAILED">>}

AppliedBefore(body) ==
  \E k \in 1..Len(audit) :
     /\ audit[k].eventType = "PAYOUT_STATUS_UPDATED"
     /\ audit[k].payload.payoutId = body.data.id
     /\ audit[k].payload.transactionHash = body.data.transactionHash
     /\ audit[k].payload.newStatus =
          (IF body.eventType = "payouts.completed" THEN "COMPLETED" ELSE "FAILED")
     /\ items[audit[k].entityId].status = audit[k].payload.newStatus
     /\ items[audit[k].entityId].payoutId = body.data.id

\* C10: delivering a terminal payout notification a second time, after its
\* terminal state is recorded, is a no-op: the ledger stays as it was.
C10_RedeliveryNoOp ==
  [][\A body \in PayoutBodies :
       (AppliedBefore(body) /\ CircleWebhook(body, SigOf("sha256=", body)))
       => UNCHANGED ledger]_vars

\* no stored transfer carries the identifier the notification names
NoTransferMatches(id) == \A t \in TransferIds : ~TransferMatches(t, id)

\* C11: a correctly signed notification whose provider identifier matches no
\* local record is answered with a success response, changes no ledger
\* record and appends no audit entry (here: the transfer events of
\* POST /circle).
C11_UnknownIdAcknowledged ==
  [][\A body \in TransferBodies :
       (/\ NoTransferMatches(body.data.id)
        /\ CircleWebhook(body, SigOf("sha256=", body)))
       => /\ resp'.code = 200
          /\ UNCHANGED ledger]_vars

\* C12: no two cross-chain transfer records that have a message identifier
\* assigned carry the same message identifier.
C12_MessageHashUnique ==
  \A t, u \in TransferIds :
     (/\ t # u
      /\ transfers[t].status # "NONE"
      /\ transfers[u].status # "NONE"
      /\ transfers[t].messageHash # NULL
      /\ transfers[u].messageHash # NULL)
     => transfers[t].messageHash # transfers[u].messageHash

RECURSIVE BigSum(_)
BigSum(S) ==
  IF S = {} THEN Zero
  ELSE LET i == CHOOSE j \in S : TRUE
       IN BigAdd(Big(items[i].amount), BigSum(S \ {i}))

\* the exact decimal sum of the amounts of the run's items, six fractional
\* digits
ExactTotal(r) == <<BigSum(RunItems(r))[1], BigSum(RunItems(r))[2], 0>>

\* C13: the totalAmount of a created run is the exact decimal sum of the
\* amounts of its items, and its totalWorkers is the number of those items.
C13_TotalIsExactSum ==
  \A r \in RunIds :
     runs[r].status # "NONE"
     => /\ runs[r].totalAmount = ExactTotal(r)
        /\ runs[r].totalWorkers = Cardinality(RunItems(r))

\* C14: once a run is created no step (of executePayrollRun or of a webhook
\* handler) changes its totalAmount or totalWorkers, nor the amount, chain,
\* run reference or worker reference of one of its items.
C14_CreatedFieldsFrozen ==
  [][/\ \A r \in RunIds :
          runs[r].status # "NONE"
          => /\ runs'[r].totalAmount = runs[r].totalAmount
             /\ runs'[r].totalWorkers = runs[r].totalWorkers
     /\ \A i \in ItemIds :
          items[i].status # "NONE"
          => /\ items'[i].amount = items[i].amount
             /\ items'[i].chain = items[i].chain
             /\ items'[i].payrollRunId = items[i].payrollRunId
             /\ items'[i].workerId = items[i].workerId]_vars

\* a two-item run executed to its end and reconciled by a payout
\* notification, its totals and its items' fields as created
C14_Witness ==
  \E p \in Calls :
     /\ ex[p].pc = "done"
     /\ PayoutUpdates > 0
     /\ runs[ex[p].run].totalWorkers = 2
     /\ runs[ex[p].run].totalAmount = <<0, 2, 0>>
     /\ \A k \in 1..2 :
          /\ items[<<ex[p].run, k>>].status \in {"COMPLETED", "FAILED"}
          /\ items[<<ex[p].run, k>>].amount = <<1>>
          /\ items[<<ex[p].run, k>>].chain = "ETHEREUM"
          /\ items[<<ex[p].run, k>>].payrollRunId = ex[p].run

\* C15: POST /payroll/runs/{id}/execute answers 400 when the run is not
\* PENDING and answers "processing" only when the run is PENDING.
C15_ExecuteRouteReply ==
  [][\A p \in Calls :
       (/\ ex[p].pc = "idle"
        /\ ex'[p].pc # "idle"
        /\ RunExists(ex'[p].run))
       => IF runs[ex'[p].run].status = "PENDING"
          THEN ex'[p].reply = [code |-> 200, status |-> "processing"]
          ELSE ex'[p].reply.code = 400]_vars

\* C16: for every item processed by executePayrollRun exactly one dispatch
\* path is taken: the gasless transfer if the worker has a wallet (even with
\* a recipient as well), otherwise the gateway payout if it has a recipient,
\* otherwise no gateway call is made and the item is marked FAILED with the
\* no-payment-method error.
C16_OnePathByCapability ==
  [][\A p \in Calls :
       /\ (ex[p].pc = "dispatch" /\ ex'[p].pc # "dispatch")
          => LET s == ex[p].snap[ex[p].idx]
                 sent == gateway' \ gateway
             IN IF s.walletId # NULL
                THEN /\ Cardinality(sent) = 1
                     /\ \A g \in sent : g.item = s.id /\ g.path = "gasless"
                ELSE IF s.recipientId # NULL
                THEN /\ Cardinality(sent) = 1
                     /\ \A g \in sent : g.item = s.id /\ g.path = "payout"
                ELSE /\ sent = {}
                     /\ ex'[p].pc = "itemFailed"
                     /\ ex'[p].error = <<"no wallet or recipient">>
       /\ (ex[p].pc = "itemFailed" /\ ex'[p].pc # "itemFailed")
          => /\ UNCHANGED gateway
             /\ items'[ex[p].snap[ex[p].idx].id].status = "FAILED"
             /\ items'[ex[p].snap[ex[p].idx].id].errorMessage = ex[p].error]_vars

\* a worker with a wallet and a recipient was paid by the gasless path, and
\* an item of a worker with neither is FAILED with the no-payment-method
\* error
C16_Witness ==
  /\ \E g \in gateway :
        /\ g.path = "gasless"
        /\ workers[items[g.item].workerId].walletId # NULL
        /\ workers[items[g.item].workerId].recipientId # NULL
  /\ \E i \in ItemIds :
        /\ items[i].status = "FAILED"
        /\ items[i].errorMessage = <<"no wallet or recipient">>
        /\ \A g \in gateway : g.item # i

\* C17: every item executePayrollRun marks COMPLETED carries a payment
\* reference (payout identifier or transaction hash) and a completion
\* timestamp, on the gasless and on the payout path; every item it marks
\* FAILED carries an error message.
C17_CompletedHasReference ==
  [][\A p \in Calls :
       /\ (ex[p].pc = "itemCompleted" /\ ex'[p].pc # "itemCompleted")
          => LET i == ex[p].snap[ex[p].idx].id
             IN /\ items'[i].status = "COMPLETED"
                /\ items'[i].payoutId # NULL \/ items'[i].transactionHash # NULL
                /\ items'[i].completedAt
       /\ (ex[p].pc = "itemFailed" /\ ex'[p].pc # "itemFailed")
          => LET i == ex[p].snap[ex[p].idx].id
             IN /\ items'[i].status = "FAILED"
                /\ items'[i].errorMessage # NULL]_vars

\* one item completed by the gasless path and one by the payout path, each
\* with its payment reference and completion timestamp
C17_Witness ==
  \E i, j \in ItemIds :
     /\ \E g \in gateway : g.item = i /\ g.path = "gasless" /\ g.accepted
     /\ \E g \in gateway : g.item = j /\ g.path = "payout" /\ g.accepted
     /\ \A k \in {i, j} :
          /\ items[k].status = "COMPLETED"
          /\ items[k].payoutId \in IssuedPayouts
          /\ items[k].completedAt

\* the audit records that name run r or one of its items
AuditOf(r) == {k \in 1..Len(audit) : audit[k].entityId[1] = r}

\* C18: createPayrollRun is all-or-nothing for the ledger: no step of a call
\* that has not committed changes the store, a failed call leaves no run,
\* item, worker or audit record of its own, and a successful call leaves the
\* run, one item per row and the audit records.
C18_CreateAllOrNothing ==
  [][\A r \in RunIds :
       tx'[r] # tx[r]
       => IF tx'[r].pc = "done"
          THEN LET n == Len(tx[r].rows)
               IN /\ runs'[r].status = "PENDING"
                  /\ \A k \in 1..MaxRows :
                       IF k <= n
                       THEN /\ items'[<<r, k>>].status = "PENDING"
                            /\ items'[<<r, k>>].amount = tx[r].rows[k].amount
                            /\ workers'[tx[r].rows[k].email].exists
                       ELSE items'[<<r, k>>] = NoItem
                  /\ Len(audit') = Len(audit) + n + 1
          ELSE /\ UNCHANGED ledger
               /\ tx'[r].pc = "failed"
                  => /\ runs'[r] = NoRun
                     /\ \A k \in 1..MaxRows : items'[<<r, k>>] = NoItem
                     /\ \A k \in 1..Len(audit') : audit'[k].entityId[1] # r]_vars

\* a call that failed after it had written a row, the store as before it
C18_Witness ==
  \E r \in RunIds :
     /\ tx[r].pc = "failed"
     /\ tx[r].idx > 1
     /\ runs[r] = NoRun
     /\ AuditOf(r) = {}
     /\ \A k \in 1..MaxRows : items[<<r, k>>] = NoItem
     /\ \A e \in Emails : ~workers[e].exists

\* C19: when recipient or wallet provisioning fails for a newly created
\* worker the call goes on: the worker is kept without that reference, the
\* other reference is still attempted and kept when it succeeds, the row's
\* item is created PENDING and the run ends PENDING.
C19_ProvisioningBestEffort ==
  [][\A r \in RunIds :
       /\ \A recipientOk, walletOk \in BOOLEAN :
            (/\ tx[r].pc = "rows"
             /\ tx[r].idx <= Len(tx[r].rows)
             /\ ~TxWorker(r, tx[r].rows[tx[r].idx].email).exists
             /\ CreateRow(r, recipientOk, walletOk))
            => LET e == tx[r].rows[tx[r].idx].email
               IN /\ tx'[r].pc = "rows"
                  /\ tx'[r].idx = tx[r].idx + 1
                  /\ tx'[r].newWorkers[e].exists
                  /\ (tx'[r].newWorkers[e].recipientId # NULL) = recipientOk
                  /\ (tx'[r].newWorkers[e].walletId # NULL) = walletOk
       /\ (tx[r].pc = "rows" /\ tx'[r].pc = "done")
          => /\ runs'[r].status = "PENDING"
             /\ \A e \in Emails :
                  tx[r].newWorkers[e].exists
                  => workers'[e] = tx[r].newWorkers[e]
             /\ \A k \in 1..Len(tx[r].rows) :
                  items'[<<r, k>>].status = "PENDING"]_vars

\* a committed run with one worker whose recipient provisioning failed and
\* one whose wallet provisioning failed, each with its item PENDING
C19_Witness ==
  \E r \in RunIds : \E i, j \in RunItems(r) :
     /\ tx[r].pc = "done"
     /\ runs[r].status = "PENDING"
     /\ items[i].status = "PENDING"
     /\ items[j].status = "PENDING"
     /\ workers[items[i].workerId].exists
     /\ workers[items[i].workerId].recipientId = NULL
     /\ workers[items[i].workerId].walletId # NULL
     /\ workers[items[j].workerId].exists
     /\ workers[items[j].workerId].recipientId # NULL
     /\ workers[items[j].workerId].walletId = NULL

\* C20: run creation accepts only a non-empty list of rows: no run exists
\* without at least one item.
C20_NonEmptyRows ==
  \A r \in RunIds :
     runs[r].status # "NONE"
     => /\ runs[r].totalWorkers >= 1
        /\ RunItems(r) # {}

\* the positions at which an executePayrollRun call has returned or thrown
Ended == {"done", "failed", "unrecorded"}

\* C21 as stated: once a run is PROCESSING, and every gateway and store call
\* returns with success or an error, the run eventually reaches COMPLETED or
\* FAILED.
C21_EventuallyFinished ==
  \A r \in RunIds :
     (runs[r].status = "PROCESSING")
        ~> (runs[r].status \in {"COMPLETED", "FAILED"})

\* C21 amended: when every gateway and store call returns, every
\* executePayrollRun call that has started ends, and a run is left
\* PROCESSING by the calls that ended only if the store rejected the FAILED
\* write of a call's error path.
C21_FinishedUnlessUnrecorded ==
  /\ \A p \in Calls : (ex[p].pc # "idle") ~> (ex[p].pc \in Ended)
  /\ [](\A r \in RunIds :
          (/\ runs[r].status = "PROCESSING"
           /\ \A p \in Calls : ex[p].run = r => ex[p].pc \in Ended)
          => \E p \in Calls : ex[p].run = r /\ ex[p].pc = "unrecorded")

\* a call whose store write was rejected after it had moved the run to
\* PROCESSING, and whose error path recorded FAILED
C21_Witness ==
  \E p \in Calls :
     /\ ex[p].pc = "failed"
     /\ ex[p].statusCode = 0
     /\ RunExists(ex[p].run)
     /\ runs[ex[p].run].status = "FAILED"
     /\ items[<<ex[p].run, 1>>].status # "PENDING"

\* C22: on the USDC-fee path, when the computed fee exceeds the maximum the
\* request fails before a permit is built or an operation is submitted to
\* the bundler and no paymaster operation record is created; when the fee is
\* at most the maximum the operation is submitted.
C22_FeeAboveMaximumRejected ==
  [][\A w \in Emails, o \in OpIds, fee \in GasFees, max \in MaxGasFees,
        accepted \in BOOLEAN :
       (HasWallet(w) /\ UsdcGasTransaction(w, o, fee, max, accepted))
       => IF BigLess(Big(Defined(max, DefaultMaxGasFeeUSDC)), Big(fee))
          THEN /\ UNCHANGED <<gateway, pmOps>>
               /\ resp'.code = 500
          ELSE /\ ProviderRequest(w, o, "bundler", accepted) \in gateway'
               /\ (pmOps'[o].status = "pending") = accepted]_vars

\* a request whose fee exceeded the maximum was answered with the error, no
\* permit or bundler request made and no record written
C22_Witness ==
  /\ resp = [route |-> "usdc-gas-transaction", code |-> 500]
  /\ \A g \in gateway : g.path \notin {"permit", "bundler"}
  /\ \A o \in OpIds : pmOps[o].status = "NONE"

\* C23: monitorTransfer stops; it queries the attestation at most maxAttempts
\* times, failed queries included; it returns 'attested' only with an
\* attestation in hand and otherwise ends in the timeout error; and no step
\* of it writes a transfer record
C23_MonitorBounded ==
  /\ [](/\ mon.queries <= mon.maxAttempts
        /\ mon.errors <= mon.queries
        /\ mon.pc = "attested" => mon.attestation \in Attestations
        /\ mon.pc = "timeout" => /\ mon.attestation = NULL
                                 /\ mon.attempts = mon.queries)
  /\ [][mon' # mon => transfers' = transfers]_vars
  /\ (mon.pc = "loop") ~> (mon.pc \in {"attested", "timeout"})

C23_Witness ==
  /\ mon.pc = "timeout"
  /\ mon.queries = MaxAttempts
  /\ mon.errors > 0 /\ mon.errors < mon.queries
  /\ \E t \in TransferIds : transfers[t].status = "PENDING"

OperationRecorded(g) ==
  CASE g.path = "sponsor" -> gasTxs[g.item[2]].status # "NONE"
    [] g.path = "bundler" -> pmOps[g.item[2]].status # "NONE"
    [] g.path = "gasless" -> \E o \in OpIds : gasTxs[o].status # "NONE"
    [] OTHER -> TRUE

\* C26: every sponsored or USDC-fee operation the provider accepted, from a
\* worker endpoint or from the gasless path of a payroll run, has its
\* operation record
C26_OperationsRecorded ==
  \A g \in gateway : g.accepted => OperationRecorded(g)

\* C27: whenever a run is COMPLETED or FAILED, each of its items is COMPLETED
\* or FAILED, also when the run became FAILED through the error path
C27_FinishedRunFinishedItems ==
  \A r \in RunIds :
     runs[r].status \in {"COMPLETED", "FAILED"}
     => \A i \in RunItems(r) : items[i].status \in {"COMPLETED", "FAILED"}

\* C28: no step of an executePayrollRun call that was rejected, the run
\* missing or not PENDING, changes a run or an item
C28_RejectedExecuteWritesNothing ==
  [][\A p \in Calls :
       (ex[p].statusCode \in {400, 404} /\ ex'[p] # ex[p])
       => UNCHANGED <<runs, items>>]_vars

\* C29: a COMPLETED run has an item that is COMPLETED and a FAILED run has
\* none, payout notifications included
C29_RunStatusMatchesItems ==
  \A r \in RunIds :
     /\ runs[r].status = "COMPLETED"
        => \E i \in RunItems(r) : items[i].status = "COMPLETED"
     /\ runs[r].status = "FAILED"
        => \A i \in RunItems(r) : items[i].status # "COMPLETED"

\* C30: when the gateway accepted a payout, a valid payouts.failed
\* notification for it has been handled, and the call has finished the item
\* (its outcome is in results), the item is FAILED
C30_FailedNoticeKept ==
  \A p \in Calls : \A i \in ItemIds :
     (/\ <<"po", p, i>> \in IssuedPayouts
      /\ <<"po", p, i>> \in failedLog
      /\ i \in ResultItems(p, "completed") \cup ResultItems(p, "failed"))
     => items[i].status = "FAILED"

C38_AttestationOutcomes ==
  [][\A response \in Responses :
       MonitorQuery(response)
       => CASE response.status = 200 /\ response.attestation \in Attestations ->
                 /\ mon'.last = [threw |-> FALSE, value |-> response.attestation]
                 /\ mon'.pc = "attested"
                 /\ mon'.attestation = response.attestation
            [] response.status = 200 /\ response.attestation \notin Attestations ->
                 /\ mon'.last = [threw |-> FALSE, value |-> NULL]
                 /\ mon'.errors = mon.errors
            [] response.status = 404 ->
                 /\ mon'.last = [threw |-> FALSE, value |-> NULL]
                 /\ mon'.errors = mon.errors
            [] OTHER ->
                 /\ mon'.last.threw
                 /\ mon'.errors = mon.errors + 1]_vars

\* a monitor that saw a failure and a 'not yet available' answer and then
\* the attestation
C38_Witness ==
  /\ mon.pc = "attested"
  /\ mon.errors = 1
  /\ mon.attempts = 2
  /\ mon.last.value \in Attestations

\* C32: monitorUserOperation stops after at most maxAttempts receipt
\* queries, and the outcome it reports when no receipt came is not the one
\* it reports for a receipt that says the operation failed
C32_TimeoutDistinct ==
  /\ [](/\ opMon.queries <= opMon.maxAttempts
        /\ opMon.pc = "timeout" => opMon.result.status # "failed")
  /\ (opMon.pc = "loop") ~> (opMon.pc \in {"returned", "timeout"})

RECURSIVE Pow2(_)
Pow2(n) == IF n = 0 THEN 1 ELSE 2 * Pow2(n - 1)

\* C39: retry calls fn at most retries + 1 times, returns the value of the
\* first call that succeeds, throws the error of the last call when all
\* retries + 1 fail, sleeps delay, 2 * delay, 4 * delay, ... between
\* consecutive calls, and ends
C39_RetryBounded ==
  /\ [](/\ rt.calls <= rt.args.retries + 1
        /\ Len(rt.slept) = IF rt.pc \in {"idle", "call"} /\ rt.calls > 0
                            THEN rt.calls ELSE IF rt.calls > 0
                            THEN rt.calls - 1 ELSE 0
        /\ \A k \in 1..Len(rt.slept) : rt.slept[k] = rt.args.delay * Pow2(k - 1)
        /\ rt.pc = "returned" => rt.result \in Values
        /\ rt.pc = "thrown" => /\ rt.calls = rt.args.retries + 1
                               /\ rt.result = rt.error
                               /\ rt.result \in Failures)
  /\ [][/\ rt.pc = "returned" => rt'.pc = "returned" /\ rt'.calls = rt.calls
        /\ \A value \in Values :
             RetryInvoke(TRUE, value) => rt'.pc = "returned" /\ rt'.result = value
        /\ \A error \in Failures :
             (RetryInvoke(FALSE, error) /\ rt'.pc = "thrown") => rt'.result = error]_vars
  /\ (rt.pc \in {"call", "sleep"}) ~> (rt.pc \in {"returned", "thrown"})

\* two failures, two sleeps of delay and 2 * delay, then a value
C39_Witness ==
  /\ rt.pc = "returned"
  /\ rt.calls = 3
  /\ rt.args.delay = 3
  /\ rt.slept = <<3, 6>>

\* C31: createPayrollRun calls the provider (createRecipient, createWallet)
\* only while the run's ledger transaction is not open
C31_NoCallInsideTransaction ==
  [][\A c \in circleCalls' \ circleCalls : tx[c.run].pc # "rows"]_vars

\* C33: the commit of a createPayrollRun call with N rows puts N items in
\* the store, all PENDING and all of the new run, with N + 1 audit records,
\* one per item and one for the run, and the run PENDING; before the commit
\* the store shows nothing of the run, and never a DRAFT run
C33_CreateAllOrNothing ==
  /\ [](\A r \in RunIds :
          /\ runs[r].status # "DRAFT"
          /\ runs[r].status = "NONE" => RunItems(r) = {} /\ AuditOf(r) = {}
          /\ runs[r].status # "NONE"
               => Cardinality(RunItems(r)) = runs[r].totalWorkers)
  /\ [][\A r \in RunIds :
          (tx[r].pc = "rows" /\ tx'[r].pc = "done")
          => LET n == Len(tx[r].rows)
             IN /\ runs'[r].status = "PENDING"
                /\ tx'[r].status = "PENDING"
                /\ RunItems(r)' = {r} \X (1..n)
                /\ \A i \in RunItems(r)' :
                     /\ items'[i].status = "PENDING"
                     /\ items'[i].payrollRunId = r
                /\ Cardinality(AuditOf(r)') = n + 1
                /\ \A i \in RunItems(r)' : \E k \in AuditOf(r)' :
                     /\ audit'[k].eventType = "PAYROLL_ITEM_CREATED"
                     /\ audit'[k].entityId = i
                /\ \E k \in AuditOf(r)' :
                     /\ audit'[k].eventType = "PAYROLL_RUN_CREATED"
                     /\ audit'[k].entityId = <<r>>]_vars

\* a committed run of two rows, in the store next to a run still being built
C33_Witness ==
  \E r, q \in RunIds :
     /\ runs[r].status = "PENDING"
     /\ Cardinality(RunItems(r)) = 2
     /\ Cardinality(AuditOf(r)) = 3
     /\ tx[q].pc = "rows" /\ tx[q].idx = 2
     /\ runs[q].status = "NONE"

\* worker records with email e, committed or written by an open transaction
WorkerRecords(e) ==
  (IF workers[e].exists THEN 1 ELSE 0)
  + Cardinality({r \in RunIds : tx[r].newWorkers[e].exists})

\* C35: there is never more than one worker record for an email; every
\* item references a worker that exists, the one with its row's email; and
\* a run has one item per row, rows that repeat an email included
C35_OneWorkerPerEmail ==
  /\ \A e \in Emails : WorkerRecords(e) <= 1
  /\ \A i \in ItemIds :
        items[i].status # "NONE" => workers[items[i].workerId].exists
  /\ \A k \in 1..Len(audit) :
        audit[k].eventType = "PAYROLL_ITEM_CREATED"
        => items[audit[k].entityId].workerId = audit[k].payload.workerEmail
  /\ \A r \in RunIds :
        runs[r].status # "NONE"
        => Cardinality(RunItems(r)) = runs[r].totalWorkers

\* two committed runs, the first with two rows, all three items of one worker
C35_Witness ==
  \E e \in Emails :
     /\ workers[e].exists
     /\ runs[1].status = "PENDING" /\ runs[2].status = "PENDING"
     /\ items[<<1, 1>>].status = "PENDING" /\ items[<<1, 1>>].workerId = e
     /\ items[<<1, 2>>].status = "PENDING" /\ items[<<1, 2>>].workerId = e
     /\ items[<<2, 1>>].status = "PENDING" /\ items[<<2, 1>>].workerId = e

\* C36: a row whose email has a worker already makes no provisioning call
\* and leaves the worker as it is, its name and both references
C36_ExistingWorkerUntouched ==
  [][\A r \in RunIds, e \in Emails :
       (/\ tx[r].pc = "rows"
        /\ tx[r].idx <= Len(tx[r].rows)
        /\ tx[r].rows[tx[r].idx].email = e
        /\ tx'[r].idx = tx[r].idx + 1
        /\ TxWorker(r, e).exists)
       => /\ circleCalls' = circleCalls
          /\ TxWorker(r, e)' = TxWorker(r, e)
          /\ workers' = workers]_vars

\* a second row for a worker that has a name and neither reference, under
\* another name: only the first row called the provider
C36_Witness ==
  \E r \in RunIds :
     /\ tx[r].pc = "rows" /\ tx[r].idx = 3
     /\ tx[r].rows[1].email = tx[r].rows[2].email
     /\ tx[r].rows[1].name # tx[r].rows[2].name
     /\ LET w == TxWorker(r, tx[r].rows[1].email)
        IN /\ w.exists /\ w.name = tx[r].rows[1].name
           /\ w.recipientId = NULL /\ w.walletId = NULL
     /\ \A c \in circleCalls : c.run = r => c.row = 1

\* C37: a step of an executePayrollRun call on run A changes run A and the
\* items of run A only: every other run, the items of every other run and
\* every worker record stay as they are, and so do the audit records
C37_ExecutionIsolated ==
  [][\A p \in Calls, A \in RunIds \cup {NoSuchRun} :
       (ex'[p] # ex[p] /\ ex'[p].run = A)
       => /\ workers' = workers
          /\ audit' = audit
          /\ \A B \in RunIds \ {A} : runs'[B] = runs[B]
          /\ \A i \in ItemIds : i[1] # A => items'[i] = items[i]]_vars

\* two calls in their loops at once on the two runs, each having written an
\* item of the worker both runs pay
C37_Witness ==
  \E p, q \in Calls :
     /\ ex[p].run = 1 /\ ex[q].run = 2
     /\ ex[p].pc = "itemCompleted" /\ ex[q].pc = "itemFailed"
     /\ items[<<1, 1>>].workerId = items[<<2, 1>>].workerId
     /\ items[<<1, 1>>].status = "PROCESSING"
     /\ items[<<2, 1>>].status = "COMPLETED"
     /\ items[<<2, 2>>].status = "PROCESSING"
     /\ runs[1].status = "PROCESSING" /\ runs[2].status = "PROCESSING"

====
